---- MODULE Spec2Model ----
(***************************************************************************)
(* A model of the resumable execution engine of zxul767/resumable:         *)
(* lexical environments, the expression evaluator, the resumable node      *)
(* tree (Block, If, While and the stateless leaves), the generator         *)
(* lifecycle (new / resume / collect) and the driver that instantiates and *)
(* resumes generator instances from the top level.                         *)
(*                                                                         *)
(* Every compiled generator body is an arena of nodes; an instance owns    *)
(* one cursor per node, one cached condition per If and one private scope  *)
(* per Block.  Python exceptions are the "sig" field of a result record.   *)
(***************************************************************************)
EXTENDS Integers, Sequences, FiniteSets, TLC

VARIABLES src, envs, insts, hist, top, last

vars == <<src, envs, insts, hist, top, last>>

(***************************************************************************)
(* Bounds of the model.                                                    *)
(***************************************************************************)
MaxTop == 2
MaxArg == 2
MaxLimit == 3
MaxControl == 1
MaxCall == 5

\* the integers the driver passes for a parameter of declaration d
ArgVals(d) == IF d \in {"stop_in_loop", "trail_gen"} THEN 0..MaxLimit ELSE 0..MaxArg

(***************************************************************************)
(* Values.  Python's None, int, bool, str, list, and the two wrapper       *)
(* objects GeneratorValue and FunctionValue / builtins.                    *)
(***************************************************************************)
None == [t |-> "none", v |-> 0]
IntV(n) == [t |-> "int", v |-> n]
BoolV(b) == [t |-> "bool", v |-> IF b THEN 1 ELSE 0]
StrV(str) == [t |-> "str", v |-> str]
ListV(seq) == [t |-> "list", v |-> seq]
GenV(i) == [t |-> "gen", v |-> i]
FunV(d) == [t |-> "fn", v |-> d]
BuiltinV(b) == [t |-> "builtin", v |-> b]

IsNum(val) == val.t \in {"int", "bool"}

Truthy(val) ==
  CASE val.t = "none" -> FALSE
    [] val.t = "int" -> val.v # 0
    [] val.t = "bool" -> val.v = 1
    [] val.t = "str" -> val.v # ""
    [] val.t = "list" -> Len(val.v) > 0
    [] OTHER -> TRUE

IsCallable(val) == val.t \in {"fn", "builtin"}

\* the cursor value None of a node that is done
Done == -1

(***************************************************************************)
(* Expressions (frontend/ast_expressions.py).                              *)
(***************************************************************************)
Literal(val) == [e |-> "lit", value |-> val]
Var(name) == [e |-> "var", name |-> name]
Binary(l, op, r) == [e |-> "bin", left |-> l, op |-> op, right |-> r]
Neg(x) == [e |-> "neg", expr |-> x]
Call(name, args) == [e |-> "call", callee_name |-> name, args |-> args]
NoExpr == [e |-> "absent"]

(***************************************************************************)
(* Statements: the nodes of a body.  A child is named by its position in   *)
(* the arena of its declaration; 0 is the absent else branch.              *)
(***************************************************************************)
Block(stmts, own) == [kind |-> "block", statements |-> stmts, own_environment |-> own]
If(c, then, else) == [kind |-> "if", condition |-> c, then |-> then, else_ |-> else]
While(c, body) == [kind |-> "while", condition |-> c, body |-> body]
Yield(x) == [kind |-> "yield", expr |-> x]
Return(x) == [kind |-> "return", expr |-> x]
Define(name, x) == [kind |-> "define", var_name |-> name, expr |-> x]
Assign(name, x) == [kind |-> "assign", var_name |-> name, expr |-> x]
ExprStmt(x) == [kind |-> "expr", expr |-> x]

Gen(params, nodes) == [kind |-> "gen", params |-> params, nodes |-> nodes]
Fun(params, nodes) == [kind |-> "fun", params |-> params, nodes |-> nodes]

\* Resumable.children of each node kind
Children(node) ==
  CASE node.kind = "block" -> node.statements
    [] node.kind = "while" -> <<node.body>>
    [] node.kind = "if" -> IF node.else_ = 0 THEN <<node.then>> ELSE <<node.then, node.else_>>
    [] OTHER -> <<>>

(***************************************************************************)
(* The programs.                                                           *)
(***************************************************************************)
\* gen range(start, end) { if start == end { yield "empty"; }
\*                         var i = start;
\*                         while i < end { yield i; i = i + 1; } }
RangeNodes ==
  << Block(<<2, 5, 6>>, FALSE),
     If(Binary(Var("start"), "==", Var("end")), 3, 0),
     Block(<<4>>, TRUE),
     Yield(Literal(StrV("empty"))),
     Define("i", Var("start")),
     While(Binary(Var("i"), "<", Var("end")), 7),
     Block(<<8, 9>>, TRUE),
     Yield(Var("i")),
     Assign("i", Binary(Var("i"), "+", Literal(IntV(1)))) >>

\* gen fib(n) { var previous_a = 0; var a = 0; var b = 1;
\*              while a <= n { yield a; previous_a = a; a = b; b = previous_a + b; } }
FibNodes ==
  << Block(<<2, 3, 4, 5>>, FALSE),
     Define("previous_a", Literal(IntV(0))),
     Define("a", Literal(IntV(0))),
     Define("b", Literal(IntV(1))),
     While(Binary(Var("a"), "<=", Var("n")), 6),
     Block(<<7, 8, 9, 10>>, TRUE),
     Yield(Var("a")),
     Assign("previous_a", Var("a")),
     Assign("a", Var("b")),
     Assign("b", Binary(Var("previous_a"), "+", Var("b"))) >>

\* gen stop_early() { yield 1; return; yield 2; }
StopEarlyNodes ==
  << Block(<<2, 3, 4>>, FALSE),
     Yield(Literal(IntV(1))),
     Return(NoExpr),
     Yield(Literal(IntV(2))) >>

\* gen stop_in_loop(limit) { var i = 0;
\*                           while i < limit { if i == 2 { return; } yield i; i = i + 1; }
\*                           yield 99; }
StopInLoopNodes ==
  << Block(<<2, 3, 10>>, FALSE),
     Define("i", Literal(IntV(0))),
     While(Binary(Var("i"), "<", Var("limit")), 4),
     Block(<<5, 8, 9>>, TRUE),
     If(Binary(Var("i"), "==", Literal(IntV(2))), 6, 0),
     Block(<<7>>, TRUE),
     Return(NoExpr),
     Yield(Var("i")),
     Assign("i", Binary(Var("i"), "+", Literal(IntV(1)))),
     Yield(Literal(IntV(99))) >>

\* gen returns_value() { yield 1; return 0; }
ReturnsValueNodes ==
  << Block(<<2, 3>>, FALSE),
     Yield(Literal(IntV(1))),
     Return(Literal(IntV(0))) >>

\* gen returns_none() { return; }
ReturnsNoneNodes ==
  << Block(<<2>>, FALSE),
     Return(NoExpr) >>

\* gen yields_then_returns() { yield 1; yield 2; return 3; }
YieldsThenReturnsNodes ==
  << Block(<<2, 3, 4>>, FALSE),
     Yield(Literal(IntV(1))),
     Yield(Literal(IntV(2))),
     Return(Literal(IntV(3))) >>

\* gen scope_isolation() { var x = 1; { var x = 2; yield x; x = x + 1; }
\*                         x = x + 2; yield x; }
ScopeIsolationNodes ==
  << Block(<<2, 3, 7, 8>>, FALSE),
     Define("x", Literal(IntV(1))),
     Block(<<4, 5, 6>>, TRUE),
     Define("x", Literal(IntV(2))),
     Yield(Var("x")),
     Assign("x", Binary(Var("x"), "+", Literal(IntV(1)))),
     Assign("x", Binary(Var("x"), "+", Literal(IntV(2)))),
     Yield(Var("x")) >>

\* gen parent_assignment() { var x = 1; { x = x + 1; } yield x; }
ParentAssignmentNodes ==
  << Block(<<2, 3, 5>>, FALSE),
     Define("x", Literal(IntV(1))),
     Block(<<4>>, TRUE),
     Assign("x", Binary(Var("x"), "+", Literal(IntV(1)))),
     Yield(Var("x")) >>

\* gen inner() { yield 5; yield 6; }
InnerNodes ==
  << Block(<<2, 3>>, FALSE),
     Yield(Literal(IntV(5))),
     Yield(Literal(IntV(6))) >>

\* gen outer() { yield collect(inner()); return 0; }
OuterNodes ==
  << Block(<<2, 3>>, FALSE),
     Yield(Call("collect", <<Call("inner", <<>>)>>)),
     Return(Literal(IntV(0))) >>

\* gen one() { yield 1; }
OneNodes ==
  << Block(<<2>>, FALSE),
     Yield(Literal(IntV(1))) >>

\* gen second() { var g = one(); next(g); yield next(g); yield 7; }
SecondNodes ==
  << Block(<<2, 3, 4, 5>>, FALSE),
     Define("g", Call("one", <<>>)),
     ExprStmt(Call("next", <<Var("g")>>)),
     Yield(Call("next", <<Var("g")>>)),
     Yield(Literal(IntV(7))) >>

\* fun add_one(x) { return x + 1; }
AddOneNodes ==
  << Block(<<2>>, FALSE),
     Return(Binary(Var("x"), "+", Literal(IntV(1)))) >>

\* gen g(n) { yield add_one(n); return 0; }
GNodes ==
  << Block(<<2, 3>>, FALSE),
     Yield(Call("add_one", <<Var("n")>>)),
     Return(Literal(IntV(0))) >>

\* gen range3() { yield 1; yield 2; yield 3; }
Range3Nodes ==
  << Block(<<2, 3, 4>>, FALSE),
     Yield(Literal(IntV(1))),
     Yield(Literal(IntV(2))),
     Yield(Literal(IntV(3))) >>

\* fun total() { var values = collect(range3()); return values; }
TotalNodes ==
  << Block(<<2, 3>>, FALSE),
     Define("values", Call("collect", <<Call("range3", <<>>)>>)),
     Return(Var("values")) >>

\* gen counter() { yield 10; yield 20; }
CounterNodes ==
  << Block(<<2, 3>>, FALSE),
     Yield(Literal(IntV(10))),
     Yield(Literal(IntV(20))) >>

\* fun first() { var g = counter(); return next(g); }
FirstNodes ==
  << Block(<<2, 3>>, FALSE),
     Define("g", Call("counter", <<>>)),
     Return(Call("next", <<Var("g")>>)) >>

\* gen one_then_return() { yield 1; return 99; }
OneThenReturnNodes ==
  << Block(<<2, 3>>, FALSE),
     Yield(Literal(IntV(1))),
     Return(Literal(IntV(99))) >>

\* fun second() { var g = one_then_return(); next(g); return next(g); }
SecondFunNodes ==
  << Block(<<2, 3, 4>>, FALSE),
     Define("g", Call("one_then_return", <<>>)),
     ExprStmt(Call("next", <<Var("g")>>)),
     Return(Call("next", <<Var("g")>>)) >>

RangeSource == [range |-> Gen(<<"start", "end">>, RangeNodes)]
FibSource == [fib |-> Gen(<<"n">>, FibNodes)]
ReturnSource ==
  [stop_early |-> Gen(<<>>, StopEarlyNodes),
   stop_in_loop |-> Gen(<<"limit">>, StopInLoopNodes),
   returns_value |-> Gen(<<>>, ReturnsValueNodes),
   returns_none |-> Gen(<<>>, ReturnsNoneNodes),
   yields_then_returns |-> Gen(<<>>, YieldsThenReturnsNodes)]
ScopeSource ==
  [scope_isolation |-> Gen(<<>>, ScopeIsolationNodes),
   parent_assignment |-> Gen(<<>>, ParentAssignmentNodes)]
NestedSource ==
  [inner |-> Gen(<<>>, InnerNodes),
   outer |-> Gen(<<>>, OuterNodes),
   one |-> Gen(<<>>, OneNodes),
   second |-> Gen(<<>>, SecondNodes)]
CallSource ==
  [add_one |-> Fun(<<"x">>, AddOneNodes),
   g |-> Gen(<<"n">>, GNodes)]

FunctionSource ==
  [range3 |-> Gen(<<>>, Range3Nodes),
   total |-> Fun(<<>>, TotalNodes),
   counter |-> Gen(<<>>, CounterNodes),
   first |-> Fun(<<>>, FirstNodes),
   one_then_return |-> Gen(<<>>, OneThenReturnNodes),
   second |-> Fun(<<>>, SecondFunNodes)]

Sources ==
  [rng |-> RangeSource, fib |-> FibSource, ret |-> ReturnSource,
   scope |-> ScopeSource, nested |-> NestedSource, call |-> CallSource,
   funs |-> FunctionSource]

SourceNames == DOMAIN Sources

\* the declarations in the order of the list above
DeclOrder ==
  <<"range", "fib", "stop_early", "stop_in_loop", "returns_value", "returns_none",
    "yields_then_returns", "scope_isolation", "parent_assignment",
    "inner", "outer", "one", "second", "add_one", "g",
    "range3", "total", "counter", "first", "one_then_return",
    "noisy", "make", "wrap", "bail", "choose", "only_done", "sweep", "two",
    "selfish", "single", "drain", "faulty", "reader",
    "trail_gen">>

\* the declarations compiled and driven through the Generator class itself:
\* a function, a generator that reads and writes a name of its caller, and
\* a generator whose parameter list repeats a name
\* gen tally(step) { var n = 0;
\*                   while n < 2 { if 0 < step { total = step; }
\*                                 yield total + n; n = n + 1; } }
TallyNodes ==
  << Block(<<2, 3>>, FALSE),
     Define("n", Literal(IntV(0))),
     While(Binary(Var("n"), "<", Literal(IntV(2))), 4),
     Block(<<5, 8, 9>>, TRUE),
     If(Binary(Literal(IntV(0)), "<", Var("step")), 6, 0),
     Block(<<7>>, TRUE),
     Assign("total", Var("step")),
     Yield(Binary(Var("total"), "+", Var("n"))),
     Assign("n", Binary(Var("n"), "+", Literal(IntV(1)))) >>

\* Generator(params = [Var("x"), Var("x")], body = ResumableBlock([]))
DupNodes == << Block(<<>>, TRUE) >>

ApiSource ==
  [add_one |-> Fun(<<"x">>, AddOneNodes),
   tally |-> Gen(<<"step">>, TallyNodes),
   dup |-> Gen(<<"x", "x">>, DupNodes)]

\* var hits = 0;
\* gen noisy() { hits = hits + 1; yield hits; }
NoisyNodes ==
  << Block(<<2, 3>>, FALSE),
     Assign("hits", Binary(Var("hits"), "+", Literal(IntV(1)))),
     Yield(Var("hits")) >>

\* fun make() { var g = noisy(); return hits; }
MakeNodes ==
  << Block(<<2, 3>>, FALSE),
     Define("g", Call("noisy", <<>>)),
     Return(Var("hits")) >>

\* gen wrap() { var g = noisy(); yield hits; yield next(g); }
WrapNodes ==
  << Block(<<2, 3, 4>>, FALSE),
     Define("g", Call("noisy", <<>>)),
     Yield(Var("hits")),
     Yield(Call("next", <<Var("g")>>)) >>

LazySource ==
  [noisy |-> Gen(<<>>, NoisyNodes),
   make |-> Fun(<<>>, MakeNodes),
   wrap |-> Gen(<<>>, WrapNodes)]

\* gen bail(limit) { var i = 0;
\*                   while i < limit { var t = i; yield t;
\*                                     if t == 1 { return t + 10; }
\*                                     i = i + 1; }
\*                   yield 99; }
BailNodes ==
  << Block(<<2, 3, 11>>, FALSE),
     Define("i", Literal(IntV(0))),
     While(Binary(Var("i"), "<", Var("limit")), 4),
     Block(<<5, 6, 7, 10>>, TRUE),
     Define("t", Var("i")),
     Yield(Var("t")),
     If(Binary(Var("t"), "==", Literal(IntV(1))), 8, 0),
     Block(<<9>>, TRUE),
     Return(Binary(Var("t"), "+", Literal(IntV(10)))),
     Assign("i", Binary(Var("i"), "+", Literal(IntV(1)))),
     Yield(Literal(IntV(99))) >>

\* gen choose(flag) { var n = 0;
\*                    while n < 2 {
\*                      if flag == 1 { flag = 0; yield 10; yield 11; }
\*                      else { flag = 1; yield 20; yield 21; }
\*                      n = n + 1; }
\*                    if flag == 1 { yield 99; } }
ChooseNodes ==
  << Block(<<2, 3, 15>>, FALSE),
     Define("n", Literal(IntV(0))),
     While(Binary(Var("n"), "<", Literal(IntV(2))), 4),
     Block(<<5, 14>>, TRUE),
     If(Binary(Var("flag"), "==", Literal(IntV(1))), 6, 10),
     Block(<<7, 8, 9>>, TRUE),
     Assign("flag", Literal(IntV(0))),
     Yield(Literal(IntV(10))),
     Yield(Literal(IntV(11))),
     Block(<<11, 12, 13>>, TRUE),
     Assign("flag", Literal(IntV(1))),
     Yield(Literal(IntV(20))),
     Yield(Literal(IntV(21))),
     Assign("n", Binary(Var("n"), "+", Literal(IntV(1)))),
     If(Binary(Var("flag"), "==", Literal(IntV(1))), 16, 0),
     Block(<<17>>, TRUE),
     Yield(Literal(IntV(99))) >>

\* gen only_done(n) { while n < 0 { yield n; } yield "done"; }
OnlyDoneNodes ==
  << Block(<<2, 5>>, FALSE),
     While(Binary(Var("n"), "<", Literal(IntV(0))), 3),
     Block(<<4>>, TRUE),
     Yield(Var("n")),
     Yield(Literal(StrV("done"))) >>

\* gen sweep(n) { var i = 0;
\*                 while i < n { var seen = i;
\*                               if seen == 0 { yield 100; }
\*                               var j = 0;
\*                               while j < 1 { var k = seen; yield k; j = j + 1; }
\*                               i = i + 1; } }
SweepNodes ==
  << Block(<<2, 3>>, FALSE),
     Define("i", Literal(IntV(0))),
     While(Binary(Var("i"), "<", Var("n")), 4),
     Block(<<5, 6, 9, 10, 15>>, TRUE),
     Define("seen", Var("i")),
     If(Binary(Var("seen"), "==", Literal(IntV(0))), 7, 0),
     Block(<<8>>, TRUE),
     Yield(Literal(IntV(100))),
     Define("j", Literal(IntV(0))),
     While(Binary(Var("j"), "<", Literal(IntV(1))), 11),
     Block(<<12, 13, 14>>, TRUE),
     Define("k", Var("seen")),
     Yield(Var("k")),
     Assign("j", Binary(Var("j"), "+", Literal(IntV(1)))),
     Assign("i", Binary(Var("i"), "+", Literal(IntV(1)))) >>

\* gen two() { yield 1; yield 2; }
TwoNodes ==
  << Block(<<2, 3>>, FALSE),
     Yield(Literal(IntV(1))),
     Yield(Literal(IntV(2))) >>

\* fun sub(a, b) { return a - b; }
SubNodes ==
  << Block(<<2>>, FALSE),
     Return(Binary(Var("a"), "-", Var("b"))) >>

\* fun diff() { var g = two(); return next(g) - next(g); }
DiffNodes ==
  << Block(<<2, 3>>, FALSE),
     Define("g", Call("two", <<>>)),
     Return(Binary(Call("next", <<Var("g")>>), "-", Call("next", <<Var("g")>>))) >>

\* fun pass() { var g = two(); return sub(next(g), next(g)); }
PassNodes ==
  << Block(<<2, 3>>, FALSE),
     Define("g", Call("two", <<>>)),
     Return(Call("sub", <<Call("next", <<Var("g")>>), Call("next", <<Var("g")>>)>>)) >>

\* fun stuck() { var g = two(); return nope - next(g); }
StuckNodes ==
  << Block(<<2, 3>>, FALSE),
     Define("g", Call("two", <<>>)),
     Return(Binary(Var("nope"), "-", Call("next", <<Var("g")>>))) >>

OrderSource ==
  [two |-> Gen(<<>>, TwoNodes),
   sub |-> Fun(<<"a", "b">>, SubNodes),
   diff |-> Fun(<<>>, DiffNodes),
   pass |-> Fun(<<>>, PassNodes),
   stuck |-> Fun(<<>>, StuckNodes)]

\* the programs that exercise the statements of a generator body one kind
\* at a time
ControlSources ==
  [lazy |-> LazySource,
   bail |-> [bail |-> Gen(<<"limit">>, BailNodes)],
   choose |-> [choose |-> Gen(<<"flag">>, ChooseNodes)],
   only_done |-> [only_done |-> Gen(<<"n">>, OnlyDoneNodes)],
   sweep |-> [sweep |-> Gen(<<"n">>, SweepNodes)],
   order |-> OrderSource]

\* a tree built by hand from the node classes, as tests/test_conditionals.py
\* and tests/test_loops.py build theirs:
\* ResumableWhile(Var("flag"),
\*   body = ResumableBlock([ResumableIf(Var("flag"), then = Yield(Literal(1))),
\*                          Assign(Var("flag"), Literal(0))]))
ProbeNodes ==
  << While(Var("flag"), 2),
     Block(<<3, 5>>, TRUE),
     If(Var("flag"), 4, 0),
     Yield(Literal(IntV(1))),
     Assign("flag", Literal(IntV(0))) >>

NodeSource == [probe |-> Gen(<<"flag">>, ProbeNodes)]

\* fun fib(n) { if n <= 1 { return n; } return fib(n - 1) + fib(n - 2); }
RecursiveFibNodes ==
  << Block(<<2, 5>>, FALSE),
     If(Binary(Var("n"), "<=", Literal(IntV(1))), 3, 0),
     Block(<<4>>, TRUE),
     Return(Var("n")),
     Return(Binary(Call("fib", <<Binary(Var("n"), "-", Literal(IntV(1)))>>), "+",
                   Call("fib", <<Binary(Var("n"), "-", Literal(IntV(2)))>>))) >>

\* var mark = 0;
\* fun find(n) { var i = 0;
\*               while i < 3 { if i + n == 2 { { mark = i + 20; return i + 10; } }
\*                             i = i + 1; }
\*               mark = n + 100; }
FindNodes ==
  << Block(<<2, 3, 11>>, FALSE),
     Define("i", Literal(IntV(0))),
     While(Binary(Var("i"), "<", Literal(IntV(3))), 4),
     Block(<<5, 10>>, TRUE),
     If(Binary(Binary(Var("i"), "+", Var("n")), "==", Literal(IntV(2))), 6, 0),
     Block(<<7>>, TRUE),
     Block(<<8, 9>>, TRUE),
     Assign("mark", Binary(Var("i"), "+", Literal(IntV(20)))),
     Return(Binary(Var("i"), "+", Literal(IntV(10)))),
     Assign("i", Binary(Var("i"), "+", Literal(IntV(1)))),
     Assign("mark", Binary(Var("n"), "+", Literal(IntV(100)))) >>

\* fun skip(n) { { if n <= 1 { return; } } mark = 0 - n; return n + n; }
SkipNodes ==
  << Block(<<2, 6, 7>>, FALSE),
     Block(<<3>>, TRUE),
     If(Binary(Var("n"), "<=", Literal(IntV(1))), 4, 0),
     Block(<<5>>, TRUE),
     Return(NoExpr),
     Assign("mark", Binary(Literal(IntV(0)), "-", Var("n"))),
     Return(Binary(Var("n"), "+", Var("n"))) >>

CallsSource ==
  [fib |-> Fun(<<"n">>, RecursiveFibNodes),
   find |-> Fun(<<"n">>, FindNodes),
   skip |-> Fun(<<"n">>, SkipNodes)]

\* the program whose generators drive instances from inside their bodies
\* and run into runtime errors:
\* var flag = 0; var hits = 0;
\* gen single() { yield 1; }
SingleNodes ==
  << Block(<<2>>, FALSE),
     Yield(Literal(IntV(1))) >>

\* gen drain() { var h = single(); yield next(h); yield next(h); yield 3; }
DrainNodes ==
  << Block(<<2, 3, 4, 5>>, FALSE),
     Define("h", Call("single", <<>>)),
     Yield(Call("next", <<Var("h")>>)),
     Yield(Call("next", <<Var("h")>>)),
     Yield(Literal(IntV(3))) >>

\* fun again() { if flag == 0 { flag = 1; return next(g); } return 7; }
AgainNodes ==
  << Block(<<2, 6>>, FALSE),
     If(Binary(Var("flag"), "==", Literal(IntV(0))), 3, 0),
     Block(<<4, 5>>, TRUE),
     Assign("flag", Literal(IntV(1))),
     Return(Call("next", <<Var("g")>>)),
     Return(Literal(IntV(7))) >>

\* gen selfish() { hits = hits + 1; yield again(); yield 2; }
\* var g = selfish();
SelfishNodes ==
  << Block(<<2, 3, 4>>, FALSE),
     Assign("hits", Binary(Var("hits"), "+", Literal(IntV(1)))),
     Yield(Call("again", <<>>)),
     Yield(Literal(IntV(2))) >>

\* var armed = 0; var count = 0;
\* fun maybe() { if armed == 0 { armed = 1; return; } return 5; }
MaybeNodes ==
  << Block(<<2, 6>>, FALSE),
     If(Binary(Var("armed"), "==", Literal(IntV(0))), 3, 0),
     Block(<<4, 5>>, TRUE),
     Assign("armed", Literal(IntV(1))),
     Return(NoExpr),
     Return(Literal(IntV(5))) >>

\* gen faulty() { count = count + 1;
\*                var a = 0;
\*                while a < 2 { a = a + 1;
\*                              if 0 < a { count = count + 10;
\*                                         var b = a + maybe();
\*                                         yield b; } }
\*                nope = a; }
FaultyNodes ==
  << Block(<<2, 3, 4, 12>>, FALSE),
     Assign("count", Binary(Var("count"), "+", Literal(IntV(1)))),
     Define("a", Literal(IntV(0))),
     While(Binary(Var("a"), "<", Literal(IntV(2))), 5),
     Block(<<6, 7>>, TRUE),
     Assign("a", Binary(Var("a"), "+", Literal(IntV(1)))),
     If(Binary(Literal(IntV(0)), "<", Var("a")), 8, 0),
     Block(<<9, 10, 11>>, TRUE),
     Assign("count", Binary(Var("count"), "+", Literal(IntV(10)))),
     Define("b", Binary(Var("a"), "+", Call("maybe", <<>>))),
     Yield(Var("b")),
     Assign("nope", Var("a")) >>

\* var total = 100;
\* gen reader() { yield total; total = total + 1; yield total; }
ReaderNodes ==
  << Block(<<2, 3, 4>>, FALSE),
     Yield(Var("total")),
     Assign("total", Binary(Var("total"), "+", Literal(IntV(1)))),
     Yield(Var("total")) >>

\* fun caller() { var total = 5; var r = reader();
\*                var a = next(r); var b = next(r); return a + b + total; }
CallerNodes ==
  << Block(<<2, 3, 4, 5, 6>>, FALSE),
     Define("total", Literal(IntV(5))),
     Define("r", Call("reader", <<>>)),
     Define("a", Call("next", <<Var("r")>>)),
     Define("b", Call("next", <<Var("r")>>)),
     Return(Binary(Binary(Var("a"), "+", Var("b")), "+", Var("total"))) >>

\* fun gather() { var total = 5; var r = reader(); var l = collect(r); return total; }
GatherNodes ==
  << Block(<<2, 3, 4, 5>>, FALSE),
     Define("total", Literal(IntV(5))),
     Define("r", Call("reader", <<>>)),
     Define("l", Call("collect", <<Var("r")>>)),
     Return(Var("total")) >>

\* fun relay() { var total = 7; return caller() + total; }
RelayNodes ==
  << Block(<<2, 3>>, FALSE),
     Define("total", Literal(IntV(7))),
     Return(Binary(Call("caller", <<>>), "+", Var("total"))) >>

NestSource ==
  [single |-> Gen(<<>>, SingleNodes),
   drain |-> Gen(<<>>, DrainNodes),
   again |-> Fun(<<>>, AgainNodes),
   selfish |-> Gen(<<>>, SelfishNodes),
   maybe |-> Fun(<<>>, MaybeNodes),
   faulty |-> Gen(<<>>, FaultyNodes),
   reader |-> Gen(<<>>, ReaderNodes),
   caller |-> Fun(<<>>, CallerNodes),
   gather |-> Fun(<<>>, GatherNodes),
   relay |-> Fun(<<>>, RelayNodes)]

\* the body run by both executors, declared as the fun trail and the gen trail_gen:
\* var mark = 0;
\* trail(n) { mark = 0; var t = 7; var i = 0;
\*            while i < n { if i == 1 { mark = mark * 3 + 2; } else { mark = mark * 3 + 1; }
\*                          { var t = mark; mark = t + i; }
\*                          if 20 < mark { return mark + t; }
\*                          i = i + 1; }
\*            if n == 0 { return; }
\*            return t - mark; }
TrailNodes ==
  << Block(<<2, 3, 4, 5, 19, 22>>, FALSE),
     Assign("mark", Literal(IntV(0))),
     Define("t", Literal(IntV(7))),
     Define("i", Literal(IntV(0))),
     While(Binary(Var("i"), "<", Var("n")), 6),
     Block(<<7, 12, 15, 18>>, TRUE),
     If(Binary(Var("i"), "==", Literal(IntV(1))), 8, 10),
     Block(<<9>>, TRUE),
     Assign("mark", Binary(Binary(Var("mark"), "*", Literal(IntV(3))), "+", Literal(IntV(2)))),
     Block(<<11>>, TRUE),
     Assign("mark", Binary(Binary(Var("mark"), "*", Literal(IntV(3))), "+", Literal(IntV(1)))),
     Block(<<13, 14>>, TRUE),
     Define("t", Var("mark")),
     Assign("mark", Binary(Var("t"), "+", Var("i"))),
     If(Binary(Literal(IntV(20)), "<", Var("mark")), 16, 0),
     Block(<<17>>, TRUE),
     Return(Binary(Var("mark"), "+", Var("t"))),
     Assign("i", Binary(Var("i"), "+", Literal(IntV(1)))),
     If(Binary(Var("n"), "==", Literal(IntV(0))), 20, 0),
     Block(<<21>>, TRUE),
     Return(NoExpr),
     Return(Binary(Var("t"), "-", Var("mark"))) >>

TwinSource ==
  [trail |-> Fun(<<"n">>, TrailNodes), trail_gen |-> Gen(<<"n">>, TrailNodes)]

\* the names of the programs of ControlSources
ControlSourceNames == {"lazy", "bail", "choose", "only_done", "sweep", "order"}

Decls(s) ==
  IF s = "api" THEN ApiSource
  ELSE IF s = "nest" THEN NestSource
  ELSE IF s = "calls" THEN CallsSource
  ELSE IF s = "twins" THEN TwinSource
  ELSE IF s = "node" THEN NodeSource
  ELSE IF s \in ControlSourceNames THEN ControlSources[s]
  ELSE Sources[s]

(***************************************************************************)
(* Environments (runtime/core.py, class Env).  The heap maps the identity  *)
(* of an Env object to its bindings and its parent_env.                    *)
(***************************************************************************)
EnvId(k, i, n) == [k |-> k, i |-> i, n |-> n]
GlobalEnv == EnvId("global", 0, 0)
NoEnv == EnvId("none", 0, 0)
\* BoundEnv with one Env object shared by every instance
BoundEnvShared(i) == EnvId("inst", 1, 0)

BoundEnv(i) == EnvId("inst", i, 0)
BlockEnv(i, n) == EnvId("block", i, n)
\* the Env of the call of a regular function at call depth c, and the Env of
\* its block n
CallEnv(c) == EnvId("call", c, 0)
FrameEnv(c, n) == EnvId("frame", c, n)

NewEnv(parent) == [key_values |-> <<>>, parent_env |-> parent]

RECURSIVE EnvHas(_, _, _), EnvGet(_, _, _), EnvSet(_, _, _, _)
EnvHas(heap, env, key) ==
  IF key \in DOMAIN heap[env].key_values THEN TRUE
  ELSE IF heap[env].parent_env # NoEnv THEN EnvHas(heap, heap[env].parent_env, key)
  ELSE FALSE

\* EnvGet that prefers the binding of the outermost scope
EnvGetOutermost(heap, env, key) ==
  IF heap[env].parent_env # NoEnv /\ EnvHas(heap, heap[env].parent_env, key)
  THEN EnvGet(heap, heap[env].parent_env, key)
  ELSE heap[env].key_values[key]

\* Env.__getitem__ (the caller checks EnvHas; its absence is the KeyError)
EnvGet(heap, env, key) ==
  IF key \in DOMAIN heap[env].key_values THEN heap[env].key_values[key]
  ELSE EnvGet(heap, heap[env].parent_env, key)

\* EnvDefine that overwrites the nearest binding of the name when there is one
EnvDefineNearest(heap, env, key, val) ==
  IF EnvHas(heap, env, key) THEN EnvSet(heap, env, key, val)
  ELSE [heap EXCEPT ![env].key_values = (key :> val) @@ heap[env].key_values]

\* Env.define
EnvDefine(heap, env, key, val) ==
  [heap EXCEPT ![env].key_values = (key :> val) @@ heap[env].key_values]

\* EnvSet that writes to the outermost scope that binds the name
EnvSetOutermost(heap, env, key, val) ==
  IF heap[env].parent_env # NoEnv /\ EnvHas(heap, heap[env].parent_env, key)
  THEN EnvSet(heap, heap[env].parent_env, key, val)
  ELSE [heap EXCEPT ![env].key_values[key] = val]

\* Env.__setitem__ (the caller checks EnvHas; its absence is the KeyError)
EnvSet(heap, env, key, val) ==
  IF key \in DOMAIN heap[env].key_values
  THEN [heap EXCEPT ![env].key_values[key] = val]
  ELSE EnvSet(heap, heap[env].parent_env, key, val)

(***************************************************************************)
(* Results.  sig is "ok" for a normal return, "yield" for YieldValue,      *)
(* "return" for ReturnValue, "done" for ResumableDone, "stop" for          *)
(* StopIteration and "err" for any other exception (named by err).         *)
(***************************************************************************)
\* the value v under a local name: F is the code that follows the assignment
With(v, F(_)) == F(v)

Res(s, sig, val) == [s |-> s, sig |-> sig, val |-> val, sender |-> 0, err |-> ""]
Err(s, name) == [s |-> s, sig |-> "err", val |-> None, sender |-> 0, err |-> name]
YieldValue(s, val, n) == [s |-> s, sig |-> "yield", val |-> val, sender |-> n, err |-> ""]

NodesOf(s, i) == s.decls[s.insts[i].decl].nodes

\* the bindings of every Env object instance i owns: its bound Env and the
\* Env of each Block
ScopesOf(heap, i) ==
  [e \in {x \in DOMAIN heap : x.k \in {"inst", "block"} /\ x.i = i} |-> heap[e].key_values]

\* the record of one step of the engine: the entry into the body by
\* Generator.resume ("resuming"), the execution of a leaf statement ("exec")
\* or the evaluation of a condition ("cond") at node n of instance i, with
\* the bindings of the instance at that moment
Log(s, i, n, what) ==
  [s EXCEPT !.tr = Append(s.tr, [i |-> i, n |-> n, ev |-> what, scopes |-> ScopesOf(s.envs, i)])]

SetCursor(s, i, n, c) == [s EXCEPT !.insts[i].cur[n] = c]

\* Resumable._mark_as_done_and_raise
mark_as_done_and_raise(s, i, n) == Res(SetCursor(s, i, n, Done), "done", None)

(***************************************************************************)
(* Resumable.reset(first_time = False), ResumableBlock.reset and           *)
(* ResumableIf.reset: the cursor returns to 0, the children are reset, a   *)
(* Block with a private scope gets a new empty Env and an If forgets its   *)
(* cached condition.                                                       *)
(***************************************************************************)
\* reset that leaves the children as they are
reset_without_children(s, i, n) ==
  With(SetCursor(s, i, n, 0), LAMBDA s1 :
    CASE NodesOf(s, i)[n].kind = "block" /\ NodesOf(s, i)[n].own_environment ->
           [s1 EXCEPT !.envs[BlockEnv(i, n)] = NewEnv(NoEnv)]
      [] NodesOf(s, i)[n].kind = "if" -> [s1 EXCEPT !.insts[i].cond[n] = None]
      [] OTHER -> s1)

RECURSIVE reset(_, _, _), reset_children(_, _, _)
reset(s, i, n) ==
  With(reset_children(SetCursor(s, i, n, 0), i, Children(NodesOf(s, i)[n])), LAMBDA s1 :
    CASE NodesOf(s, i)[n].kind = "block" /\ NodesOf(s, i)[n].own_environment ->
           [s1 EXCEPT !.envs[BlockEnv(i, n)] = NewEnv(NoEnv)]
      [] NodesOf(s, i)[n].kind = "if" -> [s1 EXCEPT !.insts[i].cond[n] = None]
      [] OTHER -> s1)

reset_children(s, i, children) ==
  IF children = <<>> THEN s
  ELSE reset_children(reset(s, i, Head(children)), i, Tail(children))

(***************************************************************************)
(* The binary operators of runtime/expression_evaluator.py on the values   *)
(* of the model: integers and booleans, and == on every value.             *)
(***************************************************************************)
PyMod(a, b) == IF b > 0 THEN a % b ELSE -((-a) % (-b))

BinaryFails(op, l, r) ==
  CASE op = "==" -> FALSE
    [] op = "mod" -> ~(IsNum(l) /\ IsNum(r)) \/ r.v = 0
    [] OTHER -> ~(IsNum(l) /\ IsNum(r))

BinaryError(op, l, r) ==
  IF op = "mod" /\ IsNum(l) /\ IsNum(r) THEN "ZeroDivisionError" ELSE "TypeError"

\* BinaryValue with < computed as <=
BinaryValueLessOrEqual(op, l, r) ==
  CASE op = "+" -> IntV(l.v + r.v)
    [] op = "-" -> IntV(l.v - r.v)
    [] op = "*" -> IntV(l.v * r.v)
    [] op = "mod" -> IntV(PyMod(l.v, r.v))
    [] op = "<" -> BoolV(l.v <= r.v)
    [] op = "<=" -> BoolV(l.v <= r.v)
    [] op = "==" -> IF IsNum(l) /\ IsNum(r) THEN BoolV(l.v = r.v)
                    ELSE IF l.t = r.t THEN BoolV(l = r) ELSE BoolV(FALSE)

\* BinaryValue with <= computed as <
BinaryValueStrictlyLess(op, l, r) ==
  CASE op = "+" -> IntV(l.v + r.v)
    [] op = "-" -> IntV(l.v - r.v)
    [] op = "*" -> IntV(l.v * r.v)
    [] op = "mod" -> IntV(PyMod(l.v, r.v))
    [] op = "<" -> BoolV(l.v < r.v)
    [] op = "<=" -> BoolV(l.v < r.v)
    [] op = "==" -> IF IsNum(l) /\ IsNum(r) THEN BoolV(l.v = r.v)
                    ELSE IF l.t = r.t THEN BoolV(l = r) ELSE BoolV(FALSE)

BinaryValue(op, l, r) ==
  CASE op = "+" -> IntV(l.v + r.v)
    [] op = "-" -> IntV(l.v - r.v)
    [] op = "*" -> IntV(l.v * r.v)
    [] op = "mod" -> IntV(PyMod(l.v, r.v))
    [] op = "<" -> BoolV(l.v < r.v)
    [] op = "<=" -> BoolV(l.v <= r.v)
    [] op = "==" -> IF IsNum(l) /\ IsNum(r) THEN BoolV(l.v = r.v)
                    ELSE IF l.t = r.t THEN BoolV(l = r) ELSE BoolV(FALSE)

(***************************************************************************)
(* The evaluator, the node tree and the generator lifecycle call each      *)
(* other: an expression may call next or collect, which resume a node      *)
(* tree, whose leaves evaluate expressions.                                *)
(***************************************************************************)
RECURSIVE eval_expr(_, _, _)
RECURSIVE eval_args(_, _, _, _)
RECURSIVE CallValue(_, _, _)
RECURSIVE GeneratorResume(_, _, _)
RECURSIVE collect_values(_, _, _, _)
RECURSIVE resume(_, _, _, _)
RECURSIVE try_run_resumable(_, _, _, _, _, _, _)
RECURSIVE execute_statements(_, _, _, _)
RECURSIVE BlockResume(_, _, _, _)
RECURSIVE WhileResume(_, _, _, _)
RECURSIVE IfResume(_, _, _, _)
RECURSIVE execute_branch(_, _, _, _, _, _)
RECURSIVE execute_block(_, _, _, _, _)
RECURSIVE execute_declarations(_, _, _, _, _)
RECURSIVE execute_statement(_, _, _, _)
RECURSIVE execute_while(_, _, _, _)
RECURSIVE execute_if(_, _, _, _)
RECURSIVE execute_body(_, _, _, _)
RECURSIVE execute_condition(_, _, _, _)
RECURSIVE FunctionCall(_, _, _)

\* eval_expr in which a StopIteration that passes through a call loses its value
eval_expr_drops_stop_value(x, env, s) ==
  CASE x.e = "lit" -> Res(s, "ok", x.value)
    [] x.e = "var" ->
         IF EnvHas(s.envs, env, x.name)
         THEN Res(s, "ok", EnvGet(s.envs, env, x.name))
         ELSE Err(s, "KeyError")
    [] x.e = "call" ->
         IF ~EnvHas(s.envs, env, x.callee_name) THEN Err(s, "KeyError")
         ELSE IF ~IsCallable(EnvGet(s.envs, env, x.callee_name)) THEN Err(s, "ValueError")
         ELSE With(eval_args(x.args, env, s, <<>>), LAMBDA a :
                IF a.sig # "ok" THEN a
                ELSE With(CallValue(EnvGet(s.envs, env, x.callee_name), a.val, a.s),
                          LAMBDA r : IF r.sig = "stop" THEN Res(r.s, "stop", None) ELSE r))
    [] x.e = "neg" ->
         With(eval_expr(x.expr, env, s), LAMBDA r :
           IF r.sig # "ok" THEN r
           ELSE IF ~IsNum(r.val) THEN Err(r.s, "TypeError")
           ELSE Res(r.s, "ok", IntV(-r.val.v)))
    [] x.e = "bin" ->
         With(eval_expr(x.left, env, s), LAMBDA l :
           IF l.sig # "ok" THEN l
           ELSE With(eval_expr(x.right, env, l.s), LAMBDA r :
                  IF r.sig # "ok" THEN r
                  ELSE IF BinaryFails(x.op, l.val, r.val)
                  THEN Err(r.s, BinaryError(x.op, l.val, r.val))
                  ELSE Res(r.s, "ok", BinaryValue(x.op, l.val, r.val))))

\* eval_expr with the right operand of a Binary evaluated before the left
eval_expr_right_first(x, env, s) ==
  CASE x.e = "lit" -> Res(s, "ok", x.value)
    [] x.e = "var" ->
         IF EnvHas(s.envs, env, x.name)
         THEN Res(s, "ok", EnvGet(s.envs, env, x.name))
         ELSE Err(s, "KeyError")
    [] x.e = "call" ->
         IF ~EnvHas(s.envs, env, x.callee_name) THEN Err(s, "KeyError")
         ELSE IF ~IsCallable(EnvGet(s.envs, env, x.callee_name)) THEN Err(s, "ValueError")
         ELSE With(eval_args(x.args, env, s, <<>>), LAMBDA a :
                IF a.sig # "ok" THEN a
                ELSE CallValue(EnvGet(s.envs, env, x.callee_name), a.val, a.s))
    [] x.e = "neg" ->
         With(eval_expr(x.expr, env, s), LAMBDA r :
           IF r.sig # "ok" THEN r
           ELSE IF ~IsNum(r.val) THEN Err(r.s, "TypeError")
           ELSE Res(r.s, "ok", IntV(-r.val.v)))
    [] x.e = "bin" ->
         With(eval_expr(x.right, env, s), LAMBDA r :
           IF r.sig # "ok" THEN r
           ELSE With(eval_expr(x.left, env, r.s), LAMBDA l :
                  IF l.sig # "ok" THEN l
                  ELSE IF BinaryFails(x.op, l.val, r.val)
                  THEN Err(l.s, BinaryError(x.op, l.val, r.val))
                  ELSE Res(l.s, "ok", BinaryValue(x.op, l.val, r.val))))

\* eval_expr(expr, env, context)
eval_expr(x, env, s) ==
  CASE x.e = "lit" -> Res(s, "ok", x.value)
    [] x.e = "var" ->
         IF EnvHas(s.envs, env, x.name)
         THEN Res(s, "ok", EnvGet(s.envs, env, x.name))
         ELSE Err(s, "KeyError")
    [] x.e = "call" ->
         IF ~EnvHas(s.envs, env, x.callee_name) THEN Err(s, "KeyError")
         ELSE IF ~IsCallable(EnvGet(s.envs, env, x.callee_name)) THEN Err(s, "ValueError")
         ELSE With(eval_args(x.args, env, s, <<>>), LAMBDA a :
                IF a.sig # "ok" THEN a
                ELSE CallValue(EnvGet(s.envs, env, x.callee_name), a.val, a.s))
    [] x.e = "neg" ->
         With(eval_expr(x.expr, env, s), LAMBDA r :
           IF r.sig # "ok" THEN r
           ELSE IF ~IsNum(r.val) THEN Err(r.s, "TypeError")
           ELSE Res(r.s, "ok", IntV(-r.val.v)))
    [] x.e = "bin" ->
         With(eval_expr(x.left, env, s), LAMBDA l :
           IF l.sig # "ok" THEN l
           ELSE With(eval_expr(x.right, env, l.s), LAMBDA r :
                  IF r.sig # "ok" THEN r
                  ELSE IF BinaryFails(x.op, l.val, r.val)
                  THEN Err(r.s, BinaryError(x.op, l.val, r.val))
                  ELSE Res(r.s, "ok", BinaryValue(x.op, l.val, r.val))))

\* [eval_expr(arg, env, context) for arg in expr.args]: left to right; the
\* result carries the list of values
eval_args(args, env, s, acc) ==
  IF args = <<>> THEN Res(s, "ok", acc)
  ELSE With(eval_expr(Head(args), env, s), LAMBDA r :
         IF r.sig # "ok" THEN r
         ELSE eval_args(Tail(args), env, r.s, Append(acc, r.val)))

\* GeneratorNew that runs the body of the new instance up to its first
\* suspension, as a call of an ordinary function would
GeneratorNewEager(s, d, args, closure_env) ==
  LET decl == s.decls[d]
      i == Len(s.insts) + 1
      N == Len(decl.nodes)
      blocks == {n \in 1..N : decl.nodes[n].kind = "block" /\ decl.nodes[n].own_environment}
      bound == [key_values |-> [p \in {decl.params[k] : k \in 1..Len(decl.params)} |->
                                  args[CHOOSE k \in 1..Len(decl.params) : decl.params[k] = p]],
                parent_env |-> NoEnv]
      inst == [decl |-> d, index |-> 0, bound |-> TRUE, env |-> closure_env, body |-> i,
               cur |-> [n \in 1..N |-> 0], cond |-> [n \in 1..N |-> None]]
      fresh == [e \in {BoundEnv(i)} \cup {BlockEnv(i, n) : n \in blocks} |->
                  IF e = BoundEnv(i) THEN bound ELSE NewEnv(NoEnv)]
  IN  [GeneratorResume(i, closure_env,
                       [s EXCEPT !.insts = Append(s.insts, inst),
                                 !.envs = fresh @@ s.envs,
                                 !.hist = Append(s.hist, [args |-> args, yielded |-> <<>>,
                                                          at |-> 0])]).s
         EXCEPT !.tr = s.tr]

\* Generator.new, reached through instantiate_generator_value: a clone of
\* the compiled tree (every cursor 0, no cached condition, a new Env in each
\* Block that owns one) bound to a new Env that holds the arguments; body
\* names the object that owns the tree the Generator object points to
GeneratorNew(s, d, args, closure_env) ==
  LET decl == s.decls[d]
      i == Len(s.insts) + 1
      N == Len(decl.nodes)
      blocks == {n \in 1..N : decl.nodes[n].kind = "block" /\ decl.nodes[n].own_environment}
      bound == [key_values |-> [p \in {decl.params[k] : k \in 1..Len(decl.params)} |->
                                  args[CHOOSE k \in 1..Len(decl.params) : decl.params[k] = p]],
                parent_env |-> NoEnv]
      inst == [decl |-> d, index |-> 0, bound |-> TRUE, env |-> closure_env, body |-> i,
               cur |-> [n \in 1..N |-> 0], cond |-> [n \in 1..N |-> None]]
      fresh == [e \in {BoundEnv(i)} \cup {BlockEnv(i, n) : n \in blocks} |->
                  IF e = BoundEnv(i) THEN bound ELSE NewEnv(NoEnv)]
  IN  [s EXCEPT !.insts = Append(s.insts, inst),
                !.envs = fresh @@ s.envs,
                !.hist = Append(s.hist, [args |-> args, yielded |-> <<>>, at |-> 0])]

\* CallValue whose next resumes the body of the instance without the
\* except clauses of Generator.resume
CallValueLeaksSignal(callee, args, s) ==
  IF callee.t = "builtin" THEN
    IF Len(args) # 1 THEN Err(s, "ValueError")
    ELSE IF args[1].t # "gen" THEN Err(s, "ValueError")
    ELSE IF callee.v = "next"
         THEN resume(s.insts[args[1].v].body, 1, BoundEnv(args[1].v), s)
         ELSE collect_values(args[1].v, s.insts[args[1].v].env, s, <<>>)
  ELSE IF Len(args) # Len(s.decls[callee.v].params) THEN Err(s, "ValueError")
  ELSE IF s.decls[callee.v].kind = "gen"
  THEN Res(GeneratorNew(s, callee.v, args, GlobalEnv), "ok", GenV(Len(s.insts) + 1))
  ELSE FunctionCall(callee.v, args, s)

\* the __call__ of NextBuiltin, CollectBuiltin and FunctionValue
CallValue(callee, args, s) ==
  IF callee.t = "builtin" THEN
    IF Len(args) # 1 THEN Err(s, "ValueError")
    ELSE IF args[1].t # "gen" THEN Err(s, "ValueError")
    ELSE IF callee.v = "next"
         THEN GeneratorResume(args[1].v, s.insts[args[1].v].env, s)
         ELSE collect_values(args[1].v, s.insts[args[1].v].env, s, <<>>)
  ELSE IF Len(args) # Len(s.decls[callee.v].params) THEN Err(s, "ValueError")
  ELSE IF s.decls[callee.v].kind = "gen"
  THEN Res(GeneratorNew(s, callee.v, args, GlobalEnv), "ok", GenV(Len(s.insts) + 1))
  ELSE FunctionCall(callee.v, args, s)

\* the state after a call at depth c has ended: its Envs are dropped
EndCall(s, c) ==
  [s EXCEPT !.envs = [e \in {x \in DOMAIN s.envs : ~(x.k \in {"call", "frame"} /\ x.i = c)} |->
                        s.envs[e]],
            !.depth = c - 1]

\* FunctionCall that also catches StopIteration and returns None
FunctionCallCatchesStop(d, args, s) ==
  LET params == s.decls[d].params
      c == s.depth + 1
      call_env == [key_values |-> [p \in {params[k] : k \in 1..Len(params)} |->
                                     args[CHOOSE k \in 1..Len(params) : params[k] = p]],
                   parent_env |-> GlobalEnv]
  IN  With(execute_block(d, 1, CallEnv(c),
                         [s EXCEPT !.envs = (CallEnv(c) :> call_env) @@ s.envs, !.depth = c],
                         FALSE),
           LAMBDA r :
             CASE r.sig = "return" -> Res(EndCall(r.s, c), "ok", r.val)
               [] r.sig \in {"ok", "stop"} -> Res(EndCall(r.s, c), "ok", None)
               [] OTHER -> [r EXCEPT !.s = EndCall(r.s, c)])

\* FunctionValue.__call__ for a fun declaration: a new Env under the Env of
\* the declaration holds the arguments, the body runs in it, ReturnSignal
\* gives the result
FunctionCall(d, args, s) ==
  LET params == s.decls[d].params
      c == s.depth + 1
      call_env == [key_values |-> [p \in {params[k] : k \in 1..Len(params)} |->
                                     args[CHOOSE k \in 1..Len(params) : params[k] = p]],
                   parent_env |-> GlobalEnv]
  IN  With(execute_block(d, 1, CallEnv(c),
                         [s EXCEPT !.envs = (CallEnv(c) :> call_env) @@ s.envs, !.depth = c],
                         FALSE),
           LAMBDA r :
             CASE r.sig = "return" -> Res(EndCall(r.s, c), "ok", r.val)
               [] r.sig = "ok" -> Res(EndCall(r.s, c), "ok", None)
               [] OTHER -> [r EXCEPT !.s = EndCall(r.s, c)])

\* execute_block that runs every block in the Env it is given
execute_block_shares_env(d, n, env, s, own_environment) ==
  execute_declarations(d, s.decls[d].nodes[n].statements, env, s, 1)

\* execute_block(block, env, context, own_environment)
execute_block(d, n, env, s, own_environment) ==
  execute_declarations(d, s.decls[d].nodes[n].statements,
                       IF own_environment THEN FrameEnv(s.depth, n) ELSE env,
                       IF own_environment
                       THEN [s EXCEPT !.envs = (FrameEnv(s.depth, n) :> NewEnv(env)) @@ s.envs]
                       ELSE s,
                       1)

\* for declaration in block.declarations: execute_declaration(...)
execute_declarations(d, declarations, env, s, k) ==
  IF k > Len(declarations) THEN Res(s, "ok", None)
  ELSE With(execute_statement(d, declarations[k], env, s), LAMBDA r :
         IF r.sig = "ok" THEN execute_declarations(d, declarations, env, r.s, k + 1) ELSE r)

\* execute_while in which a return in the body only leaves the loop
execute_while_return_breaks(d, n, env, s) ==
  With(eval_expr(s.decls[d].nodes[n].condition, env, s), LAMBDA c :
    IF c.sig # "ok" THEN c
    ELSE IF ~Truthy(c.val) THEN Res(c.s, "ok", None)
    ELSE With(execute_statement(d, s.decls[d].nodes[n].body, env, c.s), LAMBDA r :
           CASE r.sig = "ok" -> execute_while(d, n, env, r.s)
             [] r.sig = "return" -> Res(r.s, "ok", None)
             [] OTHER -> r))

\* the While case of execute_statement
execute_while(d, n, env, s) ==
  With(eval_expr(s.decls[d].nodes[n].condition, env, s), LAMBDA c :
    IF c.sig # "ok" THEN c
    ELSE IF ~Truthy(c.val) THEN Res(c.s, "ok", None)
    ELSE With(execute_statement(d, s.decls[d].nodes[n].body, env, c.s), LAMBDA r :
           IF r.sig = "ok" THEN execute_while(d, n, env, r.s) ELSE r))

\* the If case of execute_statement
execute_if(d, n, env, s) ==
  With(eval_expr(s.decls[d].nodes[n].condition, env, s), LAMBDA c :
    IF c.sig # "ok" THEN c
    ELSE IF Truthy(c.val) \/ s.decls[d].nodes[n].else_ # 0
    THEN execute_statement(d, IF Truthy(c.val) THEN s.decls[d].nodes[n].then
                              ELSE s.decls[d].nodes[n].else_, env, c.s)
    ELSE Res(c.s, "ok", None))

\* execute_statement(statement, env, context); "return" is ReturnSignal
execute_statement(d, n, env, s) ==
  LET node == s.decls[d].nodes[n]
  IN  CASE node.kind = "block" -> execute_block(d, n, env, s, TRUE)
        [] node.kind = "while" -> execute_while(d, n, env, s)
        [] node.kind = "if" -> execute_if(d, n, env, s)
        [] node.kind = "yield" -> Err(s, "ValueError")
        [] node.kind = "return" /\ node.expr = NoExpr -> Res(s, "return", None)
        [] OTHER ->
             With(eval_expr(node.expr, env, s), LAMBDA r :
               IF r.sig # "ok" THEN r
               ELSE CASE node.kind = "return" -> Res(r.s, "return", r.val)
                      [] node.kind = "define" ->
                           Res([r.s EXCEPT !.envs = EnvDefine(@, env, node.var_name, r.val)],
                               "ok", None)
                      [] node.kind = "assign" ->
                           IF EnvHas(r.s.envs, env, node.var_name)
                           THEN Res([r.s EXCEPT !.envs = EnvSet(@, env, node.var_name, r.val)],
                                    "ok", None)
                           ELSE Err(r.s, "KeyError")
                      [] node.kind = "expr" -> Res(r.s, "ok", None))

\* GeneratorResume with the value of the return dropped
GeneratorResumeDropsValue(i, env, s) ==
  IF ~s.insts[i].bound THEN Err(s, "ValueError")
  ELSE IF s.insts[i].index = Done THEN Res(s, "stop", None)
  ELSE With(resume(s.insts[i].body, 1, BoundEnv(i),
                   Log([s EXCEPT !.envs[BoundEnv(i)].parent_env = env, !.hist[i].at = 0],
                       i, 1, "resuming")),
            LAMBDA r :
              CASE r.sig = "yield" ->
                     Res([r.s EXCEPT !.hist[i].yielded = Append(@, r.val),
                                     !.hist[i].at = r.sender],
                         "ok", r.val)
                [] r.sig = "return" -> Res([r.s EXCEPT !.insts[i].index = Done], "stop", None)
                [] r.sig = "done" -> Res([r.s EXCEPT !.insts[i].index = Done], "stop", None)
                [] r.sig = "ok" -> Err(r.s, "RuntimeError")
                [] OTHER -> r)

\* Generator.resume that chains the bound Env under the Env of the call in
\* progress instead of the Env it is given
GeneratorResumeInCallerScope(i, env, s) ==
  IF ~s.insts[i].bound THEN Err(s, "ValueError")
  ELSE IF s.insts[i].index = Done THEN Res(s, "stop", None)
  ELSE With(resume(s.insts[i].body, 1, BoundEnv(i),
                   Log([s EXCEPT !.envs[BoundEnv(i)].parent_env =
                                    IF s.depth > 0 THEN CallEnv(s.depth) ELSE env,
                                 !.hist[i].at = 0],
                       i, 1, "resuming")),
            LAMBDA r :
              CASE r.sig = "yield" ->
                     Res([r.s EXCEPT !.hist[i].yielded = Append(@, r.val),
                                     !.hist[i].at = r.sender],
                         "ok", r.val)
                [] r.sig = "return" -> Res([r.s EXCEPT !.insts[i].index = Done], "stop", r.val)
                [] r.sig = "done" -> Res([r.s EXCEPT !.insts[i].index = Done], "stop", None)
                [] r.sig = "ok" -> Err(r.s, "RuntimeError")
                [] OTHER -> r)

\* Generator.resume(env, context)
GeneratorResume(i, env, s) ==
  IF ~s.insts[i].bound THEN Err(s, "ValueError")
  ELSE IF s.insts[i].index = Done THEN Res(s, "stop", None)
  ELSE With(resume(s.insts[i].body, 1, BoundEnv(i),
                   Log([s EXCEPT !.envs[BoundEnv(i)].parent_env = env, !.hist[i].at = 0],
                       i, 1, "resuming")),
            LAMBDA r :
              CASE r.sig = "yield" ->
                     Res([r.s EXCEPT !.hist[i].yielded = Append(@, r.val),
                                     !.hist[i].at = r.sender],
                         "ok", r.val)
                [] r.sig = "return" -> Res([r.s EXCEPT !.insts[i].index = Done], "stop", r.val)
                [] r.sig = "done" -> Res([r.s EXCEPT !.insts[i].index = Done], "stop", None)
                [] r.sig = "ok" -> Err(r.s, "RuntimeError")
                [] OTHER -> r)

\* collect_values with `if stop.value:` in place of `is not None`
collect_values_truthy(i, env, s, values) ==
  With(GeneratorResume(i, env, s), LAMBDA r :
    CASE r.sig = "ok" -> collect_values(i, env, r.s, Append(values, r.val))
      [] r.sig = "stop" ->
           Res(r.s, "ok", ListV(IF Truthy(r.val) THEN Append(values, r.val) ELSE values))
      [] OTHER -> r)

\* collect_values(generator, env, context); the result carries the list
collect_values(i, env, s, values) ==
  With(GeneratorResume(i, env, s), LAMBDA r :
    CASE r.sig = "ok" -> collect_values(i, env, r.s, Append(values, r.val))
      [] r.sig = "stop" ->
           Res(r.s, "ok", ListV(IF r.val # None THEN Append(values, r.val) ELSE values))
      [] OTHER -> r)

\* Resumable.resume with leaf statements that keep a cursor of their own: a
\* Define, Assign or ExpressionStatement that ran is marked done
resume_stateful_leaves(i, n, env, s) ==
  LET node == NodesOf(s, i)[n]
  IN  CASE node.kind = "block" -> BlockResume(i, n, env, s)
        [] node.kind = "while" -> WhileResume(i, n, env, s)
        [] node.kind = "if" -> IfResume(i, n, env, s)
        [] node.kind = "return" /\ node.expr = NoExpr ->
             Res(Log(s, i, n, "exec"), "return", None)
        [] OTHER ->
             With(eval_expr(node.expr, env, Log(s, i, n, "exec")), LAMBDA r :
               IF r.sig # "ok" THEN r
               ELSE CASE node.kind = "return" -> Res(r.s, "return", r.val)
                      [] node.kind = "yield" -> YieldValue(r.s, r.val, n)
                      [] node.kind = "define" ->
                           Res(SetCursor([r.s EXCEPT !.envs = EnvDefine(@, env, node.var_name, r.val)],
                                         i, n, Done),
                               "ok", None)
                      [] node.kind = "assign" ->
                           IF EnvHas(r.s.envs, env, node.var_name)
                           THEN Res(SetCursor([r.s EXCEPT !.envs = EnvSet(@, env, node.var_name, r.val)],
                                              i, n, Done),
                                    "ok", None)
                           ELSE Err(r.s, "KeyError")
                      [] node.kind = "expr" -> Res(SetCursor(r.s, i, n, Done), "ok", None))

\* Resumable.resume of the node n of instance i
resume(i, n, env, s) ==
  LET node == NodesOf(s, i)[n]
  IN  CASE node.kind = "block" -> BlockResume(i, n, env, s)
        [] node.kind = "while" -> WhileResume(i, n, env, s)
        [] node.kind = "if" -> IfResume(i, n, env, s)
        [] node.kind = "return" /\ node.expr = NoExpr ->
             Res(Log(s, i, n, "exec"), "return", None)
        [] OTHER ->
             With(eval_expr(node.expr, env, Log(s, i, n, "exec")), LAMBDA r :
               IF r.sig # "ok" THEN r
               ELSE CASE node.kind = "return" -> Res(r.s, "return", r.val)
                      [] node.kind = "yield" -> YieldValue(r.s, r.val, n)
                      [] node.kind = "define" ->
                           Res([r.s EXCEPT !.envs = EnvDefine(@, env, node.var_name, r.val)],
                               "ok", None)
                      [] node.kind = "assign" ->
                           IF EnvHas(r.s.envs, env, node.var_name)
                           THEN Res([r.s EXCEPT !.envs = EnvSet(@, env, node.var_name, r.val)],
                                    "ok", None)
                           ELSE Err(r.s, "KeyError")
                      [] node.kind = "expr" -> Res(r.s, "ok", None))

\* next_parent_index = None of try_run_resumable
NoIndex == -2

\* update_parent_index with `if next_parent_index:` in place of `is not None`
update_parent_index_if_truthy(s, i, parent, next_parent_index) ==
  SetCursor(s, i, parent,
            IF next_parent_index # NoIndex /\ next_parent_index # 0 THEN next_parent_index
            ELSE s.insts[i].cur[parent] + 1)

\* update_parent_index of try_run_resumable
update_parent_index(s, i, parent, next_parent_index) ==
  SetCursor(s, i, parent,
            IF next_parent_index # NoIndex THEN next_parent_index
            ELSE s.insts[i].cur[parent] + 1)

\* try_run_resumable with ReturnValue handled like a normal completion
try_run_resumable_catches_return(i, child, env, s, parent, next_parent_index, on_done) ==
  With(resume(i, child, env, s), LAMBDA r :
    CASE r.sig \in {"ok", "return"} ->
           Res(update_parent_index(r.s, i, parent, next_parent_index), "ok", None)
      [] r.sig = "yield" /\ r.sender = child ->
           [r EXCEPT !.s = update_parent_index(r.s, i, parent, next_parent_index)]
      [] r.sig = "done" /\ on_done ->
           Res(reset(update_parent_index(r.s, i, parent, next_parent_index), i, parent),
               "ok", None)
      [] r.sig = "done" /\ ~on_done ->
           Res(update_parent_index(r.s, i, parent, next_parent_index), "ok", None)
      [] OTHER -> r)

\* try_run_resumable that advances the parent when a return passes through
try_run_resumable_advances_on_return(i, child, env, s, parent, next_parent_index, on_done) ==
  With(resume(i, child, env, s), LAMBDA r :
    CASE r.sig \in {"ok", "return"} ->
           [r EXCEPT !.s = update_parent_index(r.s, i, parent, next_parent_index)]
      [] r.sig = "yield" /\ r.sender = child ->
           [r EXCEPT !.s = update_parent_index(r.s, i, parent, next_parent_index)]
      [] r.sig = "done" /\ on_done ->
           Res(reset(update_parent_index(r.s, i, parent, next_parent_index), i, parent),
               "ok", None)
      [] r.sig = "done" /\ ~on_done ->
           Res(update_parent_index(r.s, i, parent, next_parent_index), "ok", None)
      [] OTHER -> r)

\* try_run_resumable that advances the parent when the child raises an
\* error
try_run_resumable_advances_on_error(i, child, env, s, parent, next_parent_index, on_done) ==
  With(resume(i, child, env, s), LAMBDA r :
    CASE r.sig \in {"ok", "err"} ->
           [r EXCEPT !.s = update_parent_index(r.s, i, parent, next_parent_index)]
      [] r.sig = "yield" /\ r.sender = child ->
           [r EXCEPT !.s = update_parent_index(r.s, i, parent, next_parent_index)]
      [] r.sig = "done" /\ on_done ->
           Res(reset(update_parent_index(r.s, i, parent, next_parent_index), i, parent),
               "ok", None)
      [] r.sig = "done" /\ ~on_done ->
           Res(update_parent_index(r.s, i, parent, next_parent_index), "ok", None)
      [] OTHER -> r)

\* try_run_resumable that advances the parent on every YieldValue, whoever
\* sent it
try_run_resumable_advances_on_yield(i, child, env, s, parent, next_parent_index, on_done) ==
  With(resume(i, child, env, s), LAMBDA r :
    CASE r.sig = "ok" ->
           [r EXCEPT !.s = update_parent_index(r.s, i, parent, next_parent_index)]
      [] r.sig = "yield" ->
           [r EXCEPT !.s = update_parent_index(r.s, i, parent, next_parent_index)]
      [] r.sig = "done" /\ on_done ->
           Res(reset(update_parent_index(r.s, i, parent, next_parent_index), i, parent),
               "ok", None)
      [] r.sig = "done" /\ ~on_done ->
           Res(update_parent_index(r.s, i, parent, next_parent_index), "ok", None)
      [] OTHER -> r)

\* try_run_resumable(resumable, env, context, parent, next_parent_index,
\* on_resumable_done); on_done stands for on_resumable_done = parent.reset
try_run_resumable(i, child, env, s, parent, next_parent_index, on_done) ==
  With(resume(i, child, env, s), LAMBDA r :
    CASE r.sig = "ok" ->
           [r EXCEPT !.s = update_parent_index(r.s, i, parent, next_parent_index)]
      [] r.sig = "yield" /\ r.sender = child ->
           [r EXCEPT !.s = update_parent_index(r.s, i, parent, next_parent_index)]
      [] r.sig = "done" /\ on_done ->
           Res(reset(update_parent_index(r.s, i, parent, next_parent_index), i, parent),
               "ok", None)
      [] r.sig = "done" /\ ~on_done ->
           Res(update_parent_index(r.s, i, parent, next_parent_index), "ok", None)
      [] OTHER -> r)

\* maybe_chain_environment with a new Env made on every entry of the block
maybe_chain_new_environment(s, i, n, env) ==
  IF NodesOf(s, i)[n].own_environment
  THEN [s EXCEPT !.envs[BlockEnv(i, n)] = NewEnv(env)]
  ELSE s

\* ResumableBlock._maybe_chain_environment
maybe_chain_environment(s, i, n, env) ==
  IF NodesOf(s, i)[n].own_environment
  THEN [s EXCEPT !.envs[BlockEnv(i, n)].parent_env = env]
  ELSE s

\* execute_statements with the index after next given to try_run_resumable
execute_statements_skips(i, n, env, s) ==
  IF s.insts[i].cur[n] < Len(NodesOf(s, i)[n].statements)
  THEN With(try_run_resumable(i, NodesOf(s, i)[n].statements[s.insts[i].cur[n] + 1], env, s,
                              n, s.insts[i].cur[n] + 2, FALSE),
            LAMBDA r : IF r.sig = "ok" THEN execute_statements(i, n, env, r.s) ELSE r)
  ELSE Res(s, "ok", None)

\* ResumableBlock._execute_statements, after the environment is chained
execute_statements(i, n, env, s) ==
  IF s.insts[i].cur[n] < Len(NodesOf(s, i)[n].statements)
  THEN With(try_run_resumable(i, NodesOf(s, i)[n].statements[s.insts[i].cur[n] + 1], env, s,
                              n, s.insts[i].cur[n] + 1, FALSE),
            LAMBDA r : IF r.sig = "ok" THEN execute_statements(i, n, env, r.s) ELSE r)
  ELSE Res(s, "ok", None)

\* ResumableBlock.resume
BlockResume(i, n, env, s) ==
  IF s.insts[i].cur[n] = Done THEN Err(s, "InvalidOperation")
  ELSE With(execute_statements(i, n,
                 IF NodesOf(s, i)[n].own_environment THEN BlockEnv(i, n) ELSE env,
                 maybe_chain_environment(s, i, n, env)),
            LAMBDA r : IF r.sig = "ok" THEN mark_as_done_and_raise(r.s, i, n) ELSE r)

\* ResumableWhile._execute_body
execute_body(i, n, env, s) ==
  With(try_run_resumable(i, NodesOf(s, i)[n].body, env, SetCursor(s, i, n, 1), n, 0, TRUE),
       LAMBDA r : IF r.sig = "ok" THEN WhileResume(i, n, env, r.s) ELSE r)

\* WhileResume that ends the loop when a suspended body runs to its end
WhileResumeEndsAfterBody(i, n, env, s) ==
  CASE s.insts[i].cur[n] = 0 ->
         With(eval_expr(NodesOf(s, i)[n].condition, env, Log(s, i, n, "cond")), LAMBDA c :
           IF c.sig # "ok" THEN c
           ELSE IF Truthy(c.val) THEN execute_body(i, n, env, c.s)
           ELSE mark_as_done_and_raise(c.s, i, n))
    [] s.insts[i].cur[n] = 1 ->
         With(try_run_resumable(i, NodesOf(s, i)[n].body, env, s, n, 0, TRUE),
              LAMBDA r : IF r.sig = "ok" THEN mark_as_done_and_raise(r.s, i, n) ELSE r)
    [] s.insts[i].cur[n] = Done -> mark_as_done_and_raise(s, i, n)
    [] OTHER -> Err(s, "KeyError")

\* WhileResume with the condition evaluated on every entry, a suspended
\* body included
WhileResumeRechecks(i, n, env, s) ==
  CASE s.insts[i].cur[n] \in {0, 1} ->
         With(eval_expr(NodesOf(s, i)[n].condition, env, Log(s, i, n, "cond")), LAMBDA c :
           IF c.sig # "ok" THEN c
           ELSE IF Truthy(c.val) THEN execute_body(i, n, env, c.s)
           ELSE mark_as_done_and_raise(c.s, i, n))
    [] s.insts[i].cur[n] = Done -> mark_as_done_and_raise(s, i, n)
    [] OTHER -> Err(s, "KeyError")

\* ResumableWhile._execute_condition (cursor 0) followed by the body, or the
\* body alone (cursor 1); a While that is done raises ResumableDone again
WhileResume(i, n, env, s) ==
  CASE s.insts[i].cur[n] = 0 ->
         With(eval_expr(NodesOf(s, i)[n].condition, env, Log(s, i, n, "cond")), LAMBDA c :
           IF c.sig # "ok" THEN c
           ELSE IF Truthy(c.val) THEN execute_body(i, n, env, c.s)
           ELSE mark_as_done_and_raise(c.s, i, n))
    [] s.insts[i].cur[n] = 1 -> execute_body(i, n, env, s)
    [] s.insts[i].cur[n] = Done -> mark_as_done_and_raise(s, i, n)
    [] OTHER -> Err(s, "KeyError")

\* ResumableIf._execute_if_branch and _execute_else_branch
execute_branch(i, n, env, s, index, branch) ==
  With(try_run_resumable(i, branch, env, SetCursor(s, i, n, index), n, 3, FALSE),
       LAMBDA r : IF r.sig = "ok" THEN mark_as_done_and_raise(r.s, i, n) ELSE r)

\* ResumableIf._execute_condition: the condition is evaluated once and its
\* value kept; then the branch it selects
execute_condition(i, n, env, s) ==
  With(IF s.insts[i].cond[n] = None
       THEN eval_expr(NodesOf(s, i)[n].condition, env, Log(s, i, n, "cond"))
       ELSE Res(s, "ok", s.insts[i].cond[n]),
       LAMBDA c :
         IF c.sig # "ok" THEN c
         ELSE IF Truthy(c.val)
         THEN execute_branch(i, n, env, [c.s EXCEPT !.insts[i].cond[n] = c.val],
                             1, NodesOf(s, i)[n].then)
         ELSE IF NodesOf(s, i)[n].else_ # 0
         THEN execute_branch(i, n, env, [c.s EXCEPT !.insts[i].cond[n] = c.val],
                             2, NodesOf(s, i)[n].else_)
         ELSE mark_as_done_and_raise([c.s EXCEPT !.insts[i].cond[n] = c.val], i, n))

\* IfResume with the condition evaluated again on every entry
IfResumeReevaluates(i, n, env, s) ==
  CASE s.insts[i].cur[n] \in {0, 1, 2} ->
         execute_condition(i, n, env, [s EXCEPT !.insts[i].cond[n] = None])
    [] s.insts[i].cur[n] = 3 -> mark_as_done_and_raise(s, i, n)
    [] OTHER -> Err(s, "KeyError")

\* ResumableIf.resume: the handler chosen by the cursor
IfResume(i, n, env, s) ==
  CASE s.insts[i].cur[n] = 0 -> execute_condition(i, n, env, s)
    [] s.insts[i].cur[n] = 1 -> execute_branch(i, n, env, s, 1, NodesOf(s, i)[n].then)
    [] s.insts[i].cur[n] = 2 -> execute_branch(i, n, env, s, 2, NodesOf(s, i)[n].else_)
    [] s.insts[i].cur[n] = 3 -> mark_as_done_and_raise(s, i, n)
    [] OTHER -> Err(s, "KeyError")

(***************************************************************************)
(* The driver: interpreter.run loads the declarations of one source into   *)
(* the global environment next to the builtins; the caller then            *)
(* instantiates generators and resumes, collects or resets them in any     *)
(* order.                                                                  *)
(***************************************************************************)
\* install_stdlib and execute_declaration of every FunctionDeclaration
GlobalBindings(source) ==
  [name \in {"next", "collect"} \cup DOMAIN Decls(source) |->
     IF name \in {"next", "collect"} THEN BuiltinV(name) ELSE FunV(name)]

\* the state the engine works on during one call from the driver; decls
\* holds the declarations of the program that was run
State ==
  [src |-> src, decls |-> Decls(src), envs |-> envs, insts |-> insts, hist |-> hist,
   tr |-> <<>>, depth |-> 0]

Outcome(op, i, r) ==
  [op |-> op, inst |-> i, sig |-> r.sig, val |-> r.val, err |-> r.err, tr |-> r.s.tr]

Commit(r) ==
  /\ envs' = r.s.envs
  /\ insts' = r.s.insts
  /\ hist' = r.s.hist
  /\ UNCHANGED src

\* no call is in progress and no outcome is held by the caller
Idle == [op |-> "idle", inst |-> 0, sig |-> "ok", val |-> None, err |-> "", tr |-> <<>>]

ArgLists(d, n) == [1..n -> {IntV(a) : a \in ArgVals(d)}]

Init ==
  /\ src \in SourceNames
  /\ envs = (GlobalEnv :> [key_values |-> GlobalBindings(src), parent_env |-> NoEnv])
  /\ insts = <<>>
  /\ hist = <<>>
  /\ top = {}
  /\ last = Idle

\* Instances are interchangeable, so the driver creates them in
\* non-decreasing order of (position of the declaration, arguments); every
\* multiset of instances, in every state of progress, is still reached.
RECURSIVE LexLeq(_, _)
LexLeq(a, b) ==
  IF a = <<>> \/ b = <<>> THEN TRUE
  ELSE IF Head(a) # Head(b) THEN Head(a) < Head(b)
  ELSE LexLeq(Tail(a), Tail(b))

CreationKey(d, args) ==
  <<CHOOSE k \in 1..Len(DeclOrder) : DeclOrder[k] = d>> \o [k \in 1..Len(args) |-> args[k].v]

InOrder(d, args) ==
  \A i \in top : LexLeq(CreationKey(insts[i].decl, hist[i].args), CreationKey(d, args))

\* instantiate_generator(state, name, args) with exactly the declared names
New ==
  /\ last = Idle
  /\ Cardinality(top) < MaxTop
  /\ \E d \in DOMAIN Decls(src) :
       /\ Decls(src)[d].kind = "gen"
       /\ \E args \in ArgLists(d, Len(Decls(src)[d].params)) :
            /\ InOrder(d, args)
            /\ \E r \in {CallValue(FunV(d), args, State)} :
                 /\ Commit(r)
                 /\ top' = top \cup {r.val.v}
                 /\ last' = Outcome("new", r.val.v, r)

\* instance.resume(state.global_env, state.context)
Resume ==
  \E i \in top :
    /\ last = Idle
    /\ \E r \in {GeneratorResume(i, GlobalEnv, State)} :
         /\ Commit(r)
         /\ last' = Outcome("resume", i, r)
         /\ UNCHANGED top

\* collect_values(instance, state.global_env, state.context)
Collect ==
  \E i \in top :
    /\ last = Idle
    /\ \E r \in {collect_values(i, GlobalEnv, State, <<>>)} :
         /\ Commit(r)
         /\ last' = Outcome("collect", i, r)
         /\ UNCHANGED top

\* GeneratorReset that resets the instance instead of refusing
GeneratorResetAllowed ==
  \E i \in top :
    /\ last = Idle
    /\ insts' = [insts EXCEPT ![i].index = 0, ![i].cur = [n \in DOMAIN @ |-> 0]]
    /\ last' = Outcome("reset", i, Res(State, "ok", None))
    /\ UNCHANGED <<src, envs, hist, top>>

\* Generator.reset: always raises ValueError
GeneratorReset ==
  \E i \in top :
    /\ last = Idle
    /\ last' = Outcome("reset", i, Err(State, "ValueError"))
    /\ UNCHANGED <<src, envs, insts, hist, top>>

\* the integers a caller passes to a declaration it calls itself
ApiValues == {IntV(0), IntV(1)}

\* the positional argument lists a caller passes to declaration d: of the
\* declared length for a fun, and one shorter or one longer for any callable
CallArgs(d) ==
  UNION {[1..n -> ApiValues] :
           n \in {k \in 0..(Len(Decls(src)[d].params) + 1) :
                    Decls(src)[d].kind = "gen" => k # Len(Decls(src)[d].params)}}

InvokeOutcome(d, args, r) ==
  [op |-> "invoke", inst |-> 0, sig |-> r.sig, val |-> r.val, err |-> r.err, tr |-> r.s.tr,
   decl |-> d, args |-> args, made |-> Len(r.s.insts) - Len(insts)]

\* state.global_env[name](args, state.context): a call of a declared
\* function from the top level
Invoke ==
  /\ last = Idle
  /\ Len(insts) < MaxTop
  /\ \E d \in DOMAIN Decls(src) :
       \E args \in CallArgs(d) :
         \E r \in {CallValue(FunV(d), args, State)} :
           /\ Commit(r)
           /\ last' = InvokeOutcome(d, args, r)
           /\ UNCHANGED top

\* the caller is done with the outcome of the call and may make the next one
Discard ==
  /\ last # Idle
  /\ last' = Idle
  /\ UNCHANGED <<src, envs, insts, hist, top>>

Next == New \/ Resume \/ Collect \/ GeneratorReset \/ Invoke \/ Discard

Spec == Init /\ [][Next]_vars

(***************************************************************************)
(* Properties.                                                             *)
(***************************************************************************)
Instances == 1..Len(insts)

IsPrefix(a, b) == Len(a) <= Len(b) /\ SubSeq(b, 1, Len(a)) = a

\* the list range(start, end) has to produce
ExpectedRange(start, end) ==
  IF start < end THEN [k \in 1..(end - start) |-> IntV(start + k - 1)]
  ELSE IF start = end THEN <<StrV("empty")>>
  ELSE <<>>

\* C1: a range(start, end) instance that is exhausted has produced exactly
\* start, ..., end - 1 when start < end, the single value "empty" when
\* start = end and nothing when start > end; before that it has produced a
\* prefix of that list.
RangeSemantics ==
  \A i \in Instances :
    insts[i].decl = "range" =>
      LET expected == ExpectedRange(hist[i].args[1].v, hist[i].args[2].v)
      IN  /\ IsPrefix(hist[i].yielded, expected)
          /\ insts[i].index = Done => hist[i].yielded = expected

RangeExhausted ==
  \E i, j \in Instances :
    /\ insts[i].decl = "range" /\ insts[j].decl = "range"
    /\ insts[i].index = Done /\ insts[j].index = Done
    /\ hist[i].args = <<IntV(0), IntV(2)>> /\ hist[i].yielded = <<IntV(0), IntV(1)>>
    /\ hist[j].args = <<IntV(1), IntV(1)>> /\ hist[j].yielded = <<StrV("empty")>>

\* the state after interpreter.run of source sn
SoloState(sn) ==
  [src |-> sn, decls |-> Decls(sn),
   envs |-> (GlobalEnv :> [key_values |-> GlobalBindings(sn), parent_env |-> NoEnv]),
   insts |-> <<>>, hist |-> <<>>, tr |-> <<>>, depth |-> 0]

\* for every generator d of every source and every list of arguments, what
\* instance number 1 yields when it is the only instance and is driven to
\* exhaustion by collect_values
SoloRuns ==
  UNION {
    UNION {
      { [src |-> sn, decl |-> d, args |-> args,
         yielded |-> collect_values(1, GlobalEnv, CallValue(FunV(d), args, SoloState(sn)).s,
                                    <<>>).s.hist[1].yielded] :
        args \in ArgLists(d, Len(Decls(sn)[d].params)) } :
      d \in {x \in DOMAIN Decls(sn) : Decls(sn)[x].kind = "gen"} } :
    sn \in SourceNames }

SoloYields(sn, d, args) ==
  (CHOOSE run \in SoloRuns : run.src = sn /\ run.decl = d /\ run.args = args).yielded

EventsOf(tr, i) == {k \in 1..Len(tr) : tr[k].i = i}

NodeAt(ins, e) == Decls(src)[ins[e.i].decl].nodes[e.n]

ReturnEvents(ins, tr, i) ==
  {k \in EventsOf(tr, i) : tr[k].ev = "exec" /\ NodeAt(ins, tr[k]).kind = "return"}

\* the value of the operand of a return statement of the programs above: null
\* for a bare return, the literal otherwise
ReturnOperand(node) == IF node.expr = NoExpr THEN None ELSE node.expr.value

\* C3 (as claimed): a resume of an exhausted instance fails with
\* InvalidOperation.
ResumeExhaustedIsInvalidOperation ==
  [][\A i \in Instances :
       (insts[i].index = Done /\ last'.op = "resume" /\ last'.inst = i)
         => (last'.sig = "err" /\ last'.err = "InvalidOperation")]_vars

\* C4: once an instance is exhausted, no step changes its cursors or its
\* produced values or executes a statement of its body; a resume of it
\* returns no value, a collect of it returns the empty list, and reset is
\* refused.
ExhaustionPermanent ==
  [][\A i \in Instances :
       insts[i].index = Done =>
         /\ insts'[i] = insts[i]
         /\ hist'[i] = hist[i]
         /\ EventsOf(last'.tr, i) = {}
         /\ (last'.inst = i /\ last'.op = "resume") => last'.sig = "stop"
         /\ (last'.inst = i /\ last'.op = "collect") => last'.val = ListV(<<>>)
         /\ (last'.inst = i /\ last'.op = "reset") => last'.sig = "err"]_vars

ResumedAfterExhaustion ==
  /\ last.op = "resume"
  /\ last.sig = "stop"
  /\ last.tr = <<>>
  /\ insts[last.inst].index = Done
  /\ hist[last.inst].yielded # <<>>

\* what collect_values returns for a new instance of some declarations
ExpectedCollect ==
  [yields_then_returns |-> <<IntV(1), IntV(2), IntV(3)>>,
   stop_early |-> <<IntV(1)>>,
   returns_value |-> <<IntV(1), IntV(0)>>,
   returns_none |-> <<>>,
   outer |-> <<ListV(<<IntV(5), IntV(6)>>), IntV(0)>>]

\* C5: collect returns the values the instance yields during the call, in
\* order, followed by the value of the return that ended the body when that
\* return has an operand whose value is not null; yields 1, 2 then return 3
\* gives [1, 2, 3], yield 1 then a bare return gives [1], yield 1 then
\* return 0 gives [1, 0].
CollectYieldsThenReturnValue ==
  [][(last'.op = "collect" /\ last'.sig = "ok") =>
       LET i == last'.inst
           produced == SubSeq(hist'[i].yielded, Len(hist[i].yielded) + 1, Len(hist'[i].yielded))
           rets == ReturnEvents(insts', last'.tr, i)
           returned == IF rets = {} THEN None
                       ELSE ReturnOperand(NodeAt(insts', last'.tr[CHOOSE k \in rets : TRUE]))
       IN  /\ last'.val = ListV(IF returned # None THEN Append(produced, returned) ELSE produced)
           /\ (hist[i].yielded = <<>> /\ insts[i].index # Done
                 /\ insts[i].decl \in DOMAIN ExpectedCollect)
                => last'.val = ListV(ExpectedCollect[insts[i].decl])]_vars

CollectedFalsyReturnValue ==
  /\ last.op = "collect"
  /\ insts[last.inst].decl = "returns_value"
  /\ last.val = ListV(<<IntV(1), IntV(0)>>)

\* C6 (as claimed): when collect returns a list, the instance is exhausted.
CollectExhausts ==
  (last.op = "collect" /\ last.sig = "ok") => insts[last.inst].index = Done

\* what stop_in_loop(limit) has to produce
ExpectedStopInLoop(limit) ==
  IF limit > 2 THEN <<IntV(0), IntV(1)>>
  ELSE [k \in 1..limit |-> IntV(k - 1)] \o <<IntV(99)>>

\* C7: in every call, the execution of a return is the last step of its
\* instance and leaves the instance exhausted; stop_in_loop(limit) produces
\* 0, 1 and nothing else when limit > 2 (the yield 99 after the loop is
\* reached only when the loop ends before i = 2), and stop_early produces 1
\* only.
ReturnEndsInstance ==
  /\ \A k \in 1..Len(last.tr) :
       k \in ReturnEvents(insts, last.tr, last.tr[k].i) =>
         /\ insts[last.tr[k].i].index = Done
         /\ \A m \in (k + 1)..Len(last.tr) : last.tr[m].i # last.tr[k].i
  /\ \A i \in Instances :
       /\ insts[i].decl = "stop_in_loop" =>
            /\ IsPrefix(hist[i].yielded, ExpectedStopInLoop(hist[i].args[1].v))
            /\ insts[i].index = Done =>
                 hist[i].yielded = ExpectedStopInLoop(hist[i].args[1].v)
       /\ insts[i].decl = "stop_early" => IsPrefix(hist[i].yielded, <<IntV(1)>>)

ReturnedInsideLoop ==
  /\ last.op = "resume"
  /\ insts[last.inst].decl = "stop_in_loop"
  /\ hist[last.inst].args = <<IntV(3)>>
  /\ ReturnEvents(insts, last.tr, last.inst) # {}
  /\ insts[last.inst].index = Done
  /\ hist[last.inst].yielded = <<IntV(0), IntV(1)>>

\* C8: a resume in which the body executes return e signals exhaustion with
\* the value of e, a resume in which the body executes a bare return or that
\* finds the root block finished signals exhaustion with null; in both cases
\* the instance is exhausted when the call ends.
ExhaustionCarriesReturnValue ==
  last.op = "resume" =>
    LET i == last.inst
        rets == ReturnEvents(insts, last.tr, i)
    IN  /\ rets # {} =>
             /\ last.sig = "stop"
             /\ last.val = ReturnOperand(NodeAt(insts, last.tr[CHOOSE k \in rets : TRUE]))
             /\ insts[i].index = Done
        /\ (rets = {} /\ insts[i].cur[1] = Done) =>
             /\ last.sig = "stop"
             /\ last.val = None
             /\ insts[i].index = Done

ResumeReturnedValue ==
  /\ last.op = "resume"
  /\ insts[last.inst].decl = "yields_then_returns"
  /\ last.sig = "stop"
  /\ last.val = IntV(3)
  /\ insts[last.inst].index = Done

\* the node whose children include n (0 for the root), and the node at which
\* the first step after node n completes is logged: the next statement of
\* the enclosing block, the condition of the enclosing loop when n ends its
\* body, 0 when the body of the generator ends
ParentOf(nodes, n) ==
  IF \E p \in 1..Len(nodes) : \E k \in DOMAIN Children(nodes[p]) : Children(nodes[p])[k] = n
  THEN CHOOSE p \in 1..Len(nodes) : \E k \in DOMAIN Children(nodes[p]) : Children(nodes[p])[k] = n
  ELSE 0

RECURSIVE FirstStep(_, _), StepAfter(_, _)
FirstStep(nodes, n) ==
  IF nodes[n].kind = "block"
  THEN IF nodes[n].statements = <<>> THEN StepAfter(nodes, n)
       ELSE FirstStep(nodes, nodes[n].statements[1])
  ELSE n

StepAfter(nodes, n) ==
  LET p == ParentOf(nodes, n)
  IN  IF p = 0 THEN 0
      ELSE IF nodes[p].kind = "while" THEN p
      ELSE IF nodes[p].kind = "if" THEN StepAfter(nodes, p)
      ELSE LET k == CHOOSE j \in DOMAIN nodes[p].statements : nodes[p].statements[j] = n
           IN  IF k < Len(nodes[p].statements)
               THEN FirstStep(nodes, nodes[p].statements[k + 1])
               ELSE StepAfter(nodes, p)

\* C9: a step in which instance i is not resumed leaves the cursors, the
\* cached conditions and the bindings of every scope of i unchanged; and when
\* i is suspended at a yield, the first thing its next resume does is the
\* step that follows that yield in the body, performed with every scope of i
\* holding the bindings it had when the yield suspended it.
ResumesWithLocalStateIntact ==
  [][\A i \in Instances :
       LET events == EventsOf(last'.tr, i)
           steps == {k \in events : last'.tr[k].ev # "resuming"}
           nodes == Decls(src)[insts[i].decl].nodes
       IN  /\ events = {} =>
                /\ insts'[i].cur = insts[i].cur
                /\ insts'[i].cond = insts[i].cond
                /\ ScopesOf(envs', i) = ScopesOf(envs, i)
           /\ (hist[i].at # 0 /\ events # {}) =>
                IF StepAfter(nodes, hist[i].at) = 0 THEN steps = {}
                ELSE /\ steps # {}
                     /\ LET first == last'.tr[CHOOSE k \in steps : \A m \in steps : k <= m]
                        IN  /\ first.n = StepAfter(nodes, hist[i].at)
                            /\ first.scopes = ScopesOf(envs, i)]_vars

ResumedInsideNestedBlock ==
  /\ last.op = "resume"
  /\ insts[last.inst].decl = "scope_isolation"
  /\ Len(hist[last.inst].yielded) = 2
  /\ last.tr[2].n = 6
  /\ last.tr[2].ev = "exec"
  /\ last.tr[2].scopes[BlockEnv(last.inst, 3)] = [x |-> IntV(2)]
  /\ last.tr[2].scopes[BoundEnv(last.inst)] = [x |-> IntV(1)]

\* C10: in scope_isolation the outer x is 1 from its declaration until the
\* nested block, which declares its own x, yields and assigns to it, has
\* exited, and 3 after x = x + 2, so the instance produces 2, 3; in
\* parent_assignment the assignment in the nested block, which declares no
\* x, changes the outer x to 2 and creates no binding in the block.
ShadowingIsScopeCorrect ==
  \A i \in Instances :
    LET outer == envs[BoundEnv(i)].key_values
        inner == envs[BlockEnv(i, 3)].key_values
        root == insts[i].cur[1]
    IN  /\ insts[i].decl = "scope_isolation" =>
             /\ IsPrefix(hist[i].yielded, <<IntV(2), IntV(3)>>)
             /\ root \in {1, 2} => outer = [x |-> IntV(1)]
             /\ (root = 1 /\ insts[i].cur[3] = 2) => inner = [x |-> IntV(2)]
             /\ root = 2 => inner = [x |-> IntV(3)]
             /\ (root \in {3, 4} \/ root = Done) => outer = [x |-> IntV(3)]
             /\ insts[i].index = Done => hist[i].yielded = <<IntV(2), IntV(3)>>
        /\ insts[i].decl = "parent_assignment" =>
             /\ IsPrefix(hist[i].yielded, <<IntV(2)>>)
             /\ root # 0 => (outer = [x |-> IntV(2)] /\ inner = <<>>)
             /\ insts[i].index = Done => hist[i].yielded = <<IntV(2)>>

OuterBindingSurvivedBlock ==
  \E i \in Instances :
    /\ insts[i].decl = "scope_isolation"
    /\ insts[i].cur[3] = Done
    /\ hist[i].yielded = <<IntV(2), IntV(3)>>
    /\ envs[BoundEnv(i)].key_values = [x |-> IntV(3)]
    /\ envs[BlockEnv(i, 3)].key_values = [x |-> IntV(3)]

(***************************************************************************)
(* The Env class on its own (runtime/core.py): a chain of scopes, the      *)
(* first the root, each next one created with the one before it as its     *)
(* parent_env; the caller defines, writes and reads names in any of them.  *)
(***************************************************************************)
MaxScopes == 3

EnvNames == {"x", "y"}
EnvValues == {IntV(1), IntV(2)}

\* the k-th Env of the chain: Env(parent_env = the (k-1)-th)
ScopeEnv(k) == EnvId("scope", 0, k)
Scopes == {ScopeEnv(k) : k \in 1..MaxScopes}

EnvOutcome(op, env, key, r) ==
  [op |-> op, env |-> env, key |-> key, sig |-> r.sig, val |-> r.val, err |-> r.err]

EnvInit ==
  /\ src = "rng"
  /\ envs = [e \in Scopes |-> NewEnv(IF e.n = 1 THEN NoEnv ELSE ScopeEnv(e.n - 1))]
  /\ insts = <<>>
  /\ hist = <<>>
  /\ top = {}
  /\ last = Idle

\* env.define(key, val)
DefineItem ==
  \E e \in Scopes, key \in EnvNames, val \in EnvValues :
    /\ last = Idle
    /\ envs' = EnvDefine(envs, e, key, val)
    /\ last' = EnvOutcome("define", e, key, Res(State, "ok", val))
    /\ UNCHANGED <<src, insts, hist, top>>

\* env[key] = val
SetItem ==
  \E e \in Scopes, key \in EnvNames, val \in EnvValues :
    /\ last = Idle
    /\ IF EnvHas(envs, e, key)
       THEN /\ envs' = EnvSet(envs, e, key, val)
            /\ last' = EnvOutcome("set", e, key, Res(State, "ok", val))
       ELSE /\ envs' = envs
            /\ last' = EnvOutcome("set", e, key, Err(State, "KeyError"))
    /\ UNCHANGED <<src, insts, hist, top>>

\* env[key]
GetItem ==
  \E e \in Scopes, key \in EnvNames :
    /\ last = Idle
    /\ last' = EnvOutcome("get", e, key,
                          IF EnvHas(envs, e, key) THEN Res(State, "ok", EnvGet(envs, e, key))
                          ELSE Err(State, "KeyError"))
    /\ UNCHANGED <<src, envs, insts, hist, top>>

EnvNext == DefineItem \/ SetItem \/ GetItem \/ Discard

EnvSpec == EnvInit /\ [][EnvNext]_vars

\* the scopes from env outward, env first
RECURSIVE ChainOf(_, _)
ChainOf(heap, env) ==
  IF env = NoEnv THEN <<>> ELSE <<env>> \o ChainOf(heap, heap[env].parent_env)

\* the positions in the chain of env of the scopes that bind key
Binders(heap, env, key) ==
  {k \in 1..Len(ChainOf(heap, env)) : key \in DOMAIN heap[ChainOf(heap, env)[k]].key_values}

\* the first scope, from env outward, that binds key
Nearest(heap, env, key) ==
  ChainOf(heap, env)[CHOOSE k \in Binders(heap, env, key) :
                       \A m \in Binders(heap, env, key) : k <= m]

\* C18: a write env[key] = val changes the binding of key in the first scope
\* from env outward that binds it and nothing else; when no scope of the
\* chain binds key it fails with KeyError and no scope changes.
WriteMutatesNearestBinding ==
  [][last'.op = "set" =>
       IF Binders(envs, last'.env, last'.key) # {}
       THEN /\ last'.sig = "ok"
            /\ envs' = [envs EXCEPT ![Nearest(envs, last'.env, last'.key)].key_values[last'.key] =
                                      last'.val]
       ELSE /\ last'.sig = "err" /\ last'.err = "KeyError"
            /\ envs' = envs]_vars

\* a write from the leaf reached the middle scope and left the root alone;
\* a write of a name bound nowhere was refused
WroteThroughToAncestor ==
  /\ last.op = "set" /\ last.env = ScopeEnv(3) /\ last.key = "x" /\ last.sig = "ok"
  /\ envs[ScopeEnv(1)].key_values = [x |-> IntV(1)]
  /\ envs[ScopeEnv(2)].key_values = [x |-> IntV(2)]
  /\ envs[ScopeEnv(3)].key_values = <<>>

\* C19: define binds the name in the scope it is called on, whatever the
\* enclosing scopes bind, and changes no other binding; a read returns the
\* binding of the first scope from the reader outward that has one, and
\* fails with KeyError when there is none.
DefineIsLocalReadIsNearest ==
  [][/\ last'.op = "define" =>
          /\ last'.sig = "ok"
          /\ envs'[last'.env].key_values[last'.key] = last'.val
          /\ \A e \in Scopes : \A key \in DOMAIN envs'[e].key_values :
               (e # last'.env \/ key # last'.key) =>
                 /\ key \in DOMAIN envs[e].key_values
                 /\ envs'[e].key_values[key] = envs[e].key_values[key]
          /\ \A e \in Scopes : DOMAIN envs[e].key_values \subseteq DOMAIN envs'[e].key_values
          /\ \A e \in Scopes : envs'[e].parent_env = envs[e].parent_env
     /\ last'.op = "get" =>
          /\ envs' = envs
          /\ IF Binders(envs, last'.env, last'.key) # {}
             THEN /\ last'.sig = "ok"
                  /\ last'.val =
                       envs[Nearest(envs, last'.env, last'.key)].key_values[last'.key]
             ELSE last'.sig = "err" /\ last'.err = "KeyError"]_vars

\* the leaf shadows the binding of the root, and the root still reads its own
ReadOldValueFromEnclosingScope ==
  /\ last.op = "get" /\ last.env = ScopeEnv(1) /\ last.key = "x" /\ last.val = IntV(1)
  /\ envs[ScopeEnv(3)].key_values = [x |-> IntV(2)]
  /\ envs[ScopeEnv(2)].key_values = <<>>

(***************************************************************************)
(* Generators driven from regular functions (tests/test_functions.py).     *)
(***************************************************************************)
\* the state after the top level has created the only instance of d
DirectNew(sn, d) == CallValue(FunV(d), <<>>, SoloState(sn)).s

\* the outcome of the k-th resume of that instance from the top level
RECURSIVE DirectNext(_, _, _)
DirectNext(sn, d, k) ==
  GeneratorResume(1, GlobalEnv, IF k = 1 THEN DirectNew(sn, d) ELSE DirectNext(sn, d, k - 1).s)

\* the outcome of collect_values on that instance from the top level
DirectCollect(sn, d) == collect_values(1, GlobalEnv, DirectNew(sn, d), <<>>)

\* what the caller of an operation sees of its outcome
Seen(r) == <<r.sig, r.val, r.err>>

\* C12: a regular function that creates an instance and drives it with
\* collect or next sees what the top level sees when it drives an instance
\* of the same generator directly: the same list from collect, the same
\* value from the first next, the same exhaustion from the second next.
FunctionDrivesLikeTopLevel ==
  (last.op = "invoke" /\ src = "funs" /\ last.args = <<>>) =>
    /\ last.decl = "total" => Seen(last) = Seen(DirectCollect(src, "range3"))
    /\ last.decl = "first" => Seen(last) = Seen(DirectNext(src, "counter", 1))
    /\ last.decl = "second" => Seen(last) = Seen(DirectNext(src, "one_then_return", 2))

\* second() ran to the exhaustion of its own instance while an instance of
\* the same generator, created by the top level, is suspended after its
\* first value
FunctionExhaustedItsInstance ==
  /\ last.op = "invoke" /\ last.decl = "second" /\ last.sig = "stop"
  /\ \E i \in top :
       /\ insts[i].decl = "one_then_return"
       /\ hist[i].yielded = <<IntV(1)>>
       /\ insts[i].index # Done

\* the statements instance i executed during the call, in order
ExecEvents(tr, i) == {k \in EventsOf(tr, i) : tr[k].ev = "exec"}

\* the yield statements instances other than i executed during the call
InnerYields(ins, tr, i) ==
  {k \in 1..Len(tr) : tr[k].i # i /\ tr[k].ev = "exec" /\ NodeAt(ins, tr[k]).kind = "yield"}

NextInFunctionReturnsOrPropagates ==
  (last.op = "invoke" /\ src = "funs" /\ last.args = <<>>) =>
    /\ last.made = 1
    /\ last.decl = "first" =>
         /\ last.sig = "ok" /\ last.val = IntV(10)
         /\ hist[Len(insts)].yielded = <<last.val>>
         /\ insts[Len(insts)].index # Done
    /\ last.decl = "second" =>
         /\ last.sig = "stop" /\ last.val = IntV(99)
         /\ hist[Len(insts)].yielded = <<IntV(1)>>
         /\ insts[Len(insts)].index = Done
         /\ \E k \in ReturnEvents(insts, last.tr, Len(insts)) :
              last.val = ReturnOperand(NodeAt(insts, last.tr[k]))

\* second() was called and its second next(g) exhausted the instance
StopIterationLeftFunction ==
  /\ last.op = "invoke" /\ last.decl = "second" /\ last.sig = "stop"
  /\ last.val = IntV(99)
  /\ insts[Len(insts)].decl = "one_then_return" /\ insts[Len(insts)].index = Done

(***************************************************************************)
(* The Generator class used directly (tests/test_generators.py,            *)
(* tests/test_resumable.py): the caller compiles a declaration into a      *)
(* template, makes instances with new and resumes any Generator object it  *)
(* holds in a caller environment of its choice.                            *)
(***************************************************************************)
MaxObjects == 3

DuplicateParameters == "ValueError: Duplicate parameter names"
MissingArguments == "ValueError: Required arguments are missing"
UnexpectedArguments == "ValueError: Unexpected arguments"

ParamNames(params) == {params[k] : k \in 1..Len(params)}

\* raise_if_duplicate_params that accepts every parameter list
raise_if_duplicate_params_never(params) == FALSE

\* Generator._raise_if_duplicate_params: TRUE when it raises
raise_if_duplicate_params(params) ==
  \E a, b \in 1..Len(params) : a # b /\ params[a] = params[b]

\* validate_call_args that ignores the names that are not parameters
validate_call_args_ignores_extra(params, args) ==
  IF ParamNames(params) \ DOMAIN args # {} THEN MissingArguments ELSE ""

\* Generator._validate_call_args: the error it raises, "" when it returns
validate_call_args(params, args) ==
  IF ParamNames(params) \ DOMAIN args # {} THEN MissingArguments
  ELSE IF DOMAIN args \ ParamNames(params) # {} THEN UnexpectedArguments
  ELSE ""

\* the constructors of ResumableBlock, ResumableWhile and ResumableIf for
\* the tree of declaration d owned by object i: every cursor 0, no cached
\* condition, a new Env for each Block that owns one
NewTree(s, d, i) ==
  [s EXCEPT !.envs =
     [e \in {BlockEnv(i, n) : n \in {m \in 1..Len(s.decls[d].nodes) :
                                       /\ s.decls[d].nodes[m].kind = "block"
                                       /\ s.decls[d].nodes[m].own_environment}} |->
        NewEnv(NoEnv)] @@ s.envs]

\* Generator.__init__ for the object number i of declaration d, whose _body
\* is the tree owned by object b; the history of the object records that new
\* has not returned it
GeneratorInit(s, d, i, b) ==
  IF raise_if_duplicate_params(s.decls[d].params) THEN Err(s, DuplicateParameters)
  ELSE Res([s EXCEPT !.insts = Append(s.insts,
                                 [decl |-> d, index |-> 0, bound |-> FALSE, env |-> GlobalEnv,
                                  body |-> b,
                                  cur |-> [n \in 1..Len(s.decls[d].nodes) |-> 0],
                                  cond |-> [n \in 1..Len(s.decls[d].nodes) |-> None]]),
                     !.hist = Append(s.hist, [args |-> <<>>, yielded |-> <<>>, at |-> 0,
                                              template |-> TRUE])],
           "ok", GenV(i))

\* compile_generator_function(declaration)
compile_generator_function(s, d) ==
  IF s.decls[d].kind # "gen" THEN Err(s, "ValueError")
  ELSE GeneratorInit(NewTree(s, d, Len(s.insts) + 1), d, Len(s.insts) + 1, Len(s.insts) + 1)

\* Generator.clone with body = self._body in place of self._body.clone()
clone_shares_body(s, t) ==
  GeneratorInit(s, s.insts[t].decl, Len(s.insts) + 1, s.insts[t].body)

\* Generator.clone that copies the position of the object it clones
clone_keeps_position(s, t) ==
  With(GeneratorInit(NewTree(s, s.insts[t].decl, Len(s.insts) + 1), s.insts[t].decl,
                     Len(s.insts) + 1, Len(s.insts) + 1),
       LAMBDA r :
         IF r.sig # "ok" THEN r
         ELSE [r EXCEPT !.s.insts[r.val.v].cur = s.insts[t].cur,
                        !.s.insts[r.val.v].cond = s.insts[t].cond])

\* Generator.clone: a new Generator around a clone of the body
clone(s, t) ==
  GeneratorInit(NewTree(s, s.insts[t].decl, Len(s.insts) + 1), s.insts[t].decl,
                Len(s.insts) + 1, Len(s.insts) + 1)

\* Generator.new(args) on the Generator object t
new(s, t, args) ==
  IF validate_call_args(s.decls[s.insts[t].decl].params, args) # ""
  THEN Err(s, validate_call_args(s.decls[s.insts[t].decl].params, args))
  ELSE With(clone(s, t), LAMBDA r :
         IF r.sig # "ok" THEN r
         ELSE Res([r.s EXCEPT !.insts[r.val.v].bound = TRUE,
                              !.hist[r.val.v].args = args,
                              !.hist[r.val.v].template = FALSE,
                              !.envs = (BoundEnv(r.val.v) :>
                                          [key_values |-> args, parent_env |-> NoEnv]) @@ @],
                  "ok", r.val))

\* the Env objects the caller resumes in; each binds total
CallerEnv(k) == EnvId("caller", k, 0)
CallerEnvs == {CallerEnv(1), CallerEnv(2)}

\* the mappings the caller passes to new: any of the parameters of d and
\* the name unused, each bound to an integer
ApiArgs(d) ==
  UNION {[names -> ApiValues] :
           names \in SUBSET (ParamNames(Decls(src)[d].params) \cup {"unused"})}

ApiOutcome(op, i, d, env, args, r) ==
  [op |-> op, inst |-> i, sig |-> r.sig, val |-> r.val, err |-> r.err, tr |-> r.s.tr,
   decl |-> d, env |-> env, args |-> args, made |-> Len(r.s.insts) - Len(insts)]

\* Generator objects are interchangeable, so the caller compiles its
\* templates before it makes instances, and makes the instances in
\* non-decreasing order of their arguments; every multiset of objects, in
\* every state of progress, is still reached.
\* the Generator objects that compile_generator_function returned
Templates(h) == {x \in 1..Len(h) : h[x].template}

TemplatesOnly == Templates(hist) = 1..Len(insts)

ApiKey(d, args) == [k \in 1..Len(Decls(src)[d].params) |-> args[Decls(src)[d].params[k]].v]

ApiInOrder(d, args) ==
  \A x \in 1..Len(insts) :
    (x \notin Templates(hist) /\ insts[x].decl = d) =>
      LexLeq(ApiKey(d, hist[x].args), ApiKey(d, args))

GeneratorInitState ==
  /\ src = "api"
  /\ envs = [e \in CallerEnvs \cup {GlobalEnv} |->
               IF e = GlobalEnv THEN NewEnv(NoEnv)
               ELSE [key_values |-> [total |-> IntV(10 * (e.i - 1))], parent_env |-> NoEnv]]
  /\ insts = <<>>
  /\ hist = <<>>
  /\ top = {}
  /\ last = Idle

\* CompileBound: a template that already holds an Env
CompileBound ==
  /\ last = Idle
  /\ Len(insts) < MaxObjects
  /\ TemplatesOnly
  /\ \E d \in DOMAIN Decls(src) :
       \E r \in {compile_generator_function(State, d)} :
         /\ envs' = IF r.sig = "ok" THEN (BoundEnv(r.val.v) :> NewEnv(NoEnv)) @@ r.s.envs
                    ELSE r.s.envs
         /\ insts' = IF r.sig = "ok" THEN [r.s.insts EXCEPT ![r.val.v].bound = TRUE]
                     ELSE r.s.insts
         /\ hist' = r.s.hist
         /\ last' = ApiOutcome("compile", Len(insts) + 1, d, NoEnv, <<>>, r)
         /\ UNCHANGED <<src, top>>

\* template = compile_generator_function(declaration)
Compile ==
  /\ last = Idle
  /\ Len(insts) < MaxObjects
  /\ TemplatesOnly
  /\ \E d \in DOMAIN Decls(src) :
       \E r \in {compile_generator_function(State, d)} :
         /\ Commit(r)
         /\ last' = ApiOutcome("compile", Len(insts) + 1, d, NoEnv, <<>>, r)
         /\ UNCHANGED top

\* instance = generator.new(args), on a template or on an instance
NewFrom ==
  /\ last = Idle
  /\ Len(insts) < MaxObjects
  /\ \E t \in 1..Len(insts) :
       \E args \in ApiArgs(insts[t].decl) :
         \E r \in {new(State, t, args)} :
           /\ r.sig = "ok" => ApiInOrder(insts[t].decl, args)
           /\ Commit(r)
           /\ last' = ApiOutcome("new", t, insts[t].decl, NoEnv, args, r)
           /\ UNCHANGED top

\* ResumeIn that keeps the parent the bound Env got at the first resume
ResumeInFirstEnv ==
  /\ last = Idle
  /\ \E x \in 1..Len(insts) :
       \E e \in CallerEnvs :
         \E r \in {GeneratorResume(x, IF insts[x].bound /\ envs[BoundEnv(x)].parent_env # NoEnv
                                      THEN envs[BoundEnv(x)].parent_env ELSE e, State)} :
           /\ Commit(r)
           /\ last' = ApiOutcome("resume", x, insts[x].decl, e, <<>>, r)
           /\ UNCHANGED top

\* generator.resume(env, context), on a template or on an instance
ResumeIn ==
  /\ last = Idle
  /\ \E x \in 1..Len(insts) :
       \E e \in CallerEnvs :
         \E r \in {GeneratorResume(x, e, State)} :
           /\ Commit(r)
           /\ last' = ApiOutcome("resume", x, insts[x].decl, e, <<>>, r)
           /\ UNCHANGED top

\* FunctionValue(declaration, env)(args, context)
CallDeclared ==
  /\ last = Idle
  /\ Len(insts) < MaxObjects
  /\ \E d \in DOMAIN Decls(src) :
       \E args \in CallArgs(d) :
         \E r \in {CallValue(FunV(d), args, State)} :
           /\ Commit(r)
           /\ last' = ApiOutcome("call", 0, d, NoEnv, args, r)
           /\ UNCHANGED top

GeneratorNext == Compile \/ NewFrom \/ ResumeIn \/ CallDeclared \/ Discard

GeneratorSpec == GeneratorInitState /\ [][GeneratorNext]_vars

ParamsOf(d) == Decls(src)[d].params

\* C11: new(args) succeeds exactly when the names of args are the declared
\* parameters; otherwise it raises the ValueError for missing or for
\* unexpected arguments, no Generator object is created, no Env changes and
\* no statement runs.  A call with a number of positional arguments other
\* than the number of parameters raises ValueError in the same way.
ArityErrorBeforeBody ==
  [][/\ last'.op = "new" =>
          IF DOMAIN last'.args = ParamNames(ParamsOf(last'.decl))
          THEN last'.sig = "ok" /\ Len(insts') = Len(insts) + 1 /\ last'.tr = <<>>
          ELSE /\ last'.sig = "err"
               /\ last'.err \in {MissingArguments, UnexpectedArguments}
               /\ insts' = insts /\ envs' = envs /\ hist' = hist
               /\ last'.tr = <<>>
     /\ (last'.op = "call" /\ Len(last'.args) # Len(ParamsOf(last'.decl))) =>
          /\ last'.sig = "err" /\ last'.err = "ValueError"
          /\ insts' = insts /\ envs' = envs /\ hist' = hist
          /\ last'.tr = <<>>]_vars

\* new was refused for an extra name on a template that already has an
\* instance in progress
ExtraArgumentRefused ==
  /\ last.op = "new" /\ last.sig = "err" /\ last.err = UnexpectedArguments
  /\ DOMAIN last.args = {"step", "unused"}
  /\ ~insts[last.inst].bound
  /\ \E i \in 1..Len(insts) : insts[i].bound /\ Len(hist[i].yielded) = 1

\* C14: a resume of a template raises ValueError, executes no statement and
\* changes no object; every template keeps every cursor at 0, whatever has
\* been done with the instances made from it.
TemplateCannotBeResumed ==
  [][/\ (last'.op = "resume" /\ last'.inst \in Templates(hist)) =>
          /\ last'.sig = "err" /\ last'.err = "ValueError"
          /\ last'.tr = <<>>
          /\ insts' = insts /\ envs' = envs /\ hist' = hist
     /\ \A t \in Templates(hist') :
          /\ insts'[t].index = 0
          /\ \A n \in DOMAIN insts'[t].cur : insts'[t].cur[n] = 0 /\ insts'[t].cond[n] = None
          /\ \A e \in DOMAIN envs' : (e.k = "block" /\ e.i = t) => envs'[e] = NewEnv(NoEnv)]_vars

\* the template was resumed after an instance made from it was driven to
\* exhaustion
TemplateResumedAfterInstanceExhausted ==
  /\ last.op = "resume" /\ last.inst \in Templates(hist) /\ last.sig = "err"
  /\ \E i \in 1..Len(insts) :
       /\ i \notin Templates(hist)
       /\ insts[i].index = Done
       /\ Len(hist[i].yielded) = 2

\* the Env objects Generator object x owns, with their parents
OwnEnvs(heap, x) == [e \in {y \in DOMAIN heap : y.k \in {"inst", "block"} /\ y.i = x} |-> heap[e]]

\* C16: a resume of one Generator object changes no cursor, no cached
\* condition and no Env of any other Generator object, template or
\* instance; no two objects point to the same tree of nodes.  What a resume
\* may change besides the resumed object is the Env it was resumed in.
ResumeTouchesOnlyItsInstance ==
  [][/\ last'.op = "resume" =>
          /\ \A x \in 1..Len(insts) :
               x # last'.inst =>
                 /\ insts'[x] = insts[x]
                 /\ hist'[x] = hist[x]
                 /\ OwnEnvs(envs', x) = OwnEnvs(envs, x)
          /\ \A e \in CallerEnvs : e # last'.env => envs'[e] = envs[e]
     /\ \A x, y \in 1..Len(insts') : x # y => insts'[x].body # insts'[y].body]_vars

\* an instance was resumed to its second value while another instance of
\* the same template is suspended at its first
ResumedBesideSuspendedSibling ==
  /\ last.op = "resume" /\ last.sig = "ok"
  /\ Len(hist[last.inst].yielded) = 2
  /\ \E b \in 1..Len(insts) :
       /\ b # last.inst /\ b \notin Templates(hist)
       /\ insts[b].decl = insts[last.inst].decl
       /\ Len(hist[b].yielded) = 1
       /\ insts[b].cur # insts[last.inst].cur

\* the value of name in the bindings of the Env e itself
Bound(heap, e, name) == heap[e].key_values[name].v

\* C17: a resume of an instance of tally in the Env e makes e the parent
\* of the bound Env of the instance; the body then reads total from e and
\* writes total to e, whatever Env the instance was resumed in before, no
\* other caller Env changes, and the parameter step and the local n go on
\* from the values they had.
ResumeRebindsCallerEnv ==
  [][(/\ last'.op = "resume" /\ last'.decl = "tally"
      /\ last'.inst \notin Templates(hist)
      /\ insts[last'.inst].index # Done) =>
       /\ envs'[BoundEnv(last'.inst)].parent_env = last'.env
       /\ Bound(envs', BoundEnv(last'.inst), "step") = Bound(envs, BoundEnv(last'.inst), "step")
       /\ Bound(envs', BoundEnv(last'.inst), "n") =
            IF "n" \in DOMAIN envs[BoundEnv(last'.inst)].key_values
            THEN Bound(envs, BoundEnv(last'.inst), "n") + 1 ELSE 0
       /\ \A e \in CallerEnvs : e # last'.env => envs'[e] = envs[e]
       /\ last'.sig \in {"ok", "stop"}
       /\ last'.sig = "ok" =>
            /\ Bound(envs', last'.env, "total") =
                 IF 0 < Bound(envs, BoundEnv(last'.inst), "step")
                 THEN Bound(envs, BoundEnv(last'.inst), "step")
                 ELSE Bound(envs, last'.env, "total")
            /\ last'.val = IntV(Bound(envs', last'.env, "total")
                                + Bound(envs', BoundEnv(last'.inst), "n"))
       /\ last'.sig = "stop" => envs'[last'.env] = envs[last'.env]]_vars

\* an instance resumed first in one Env, where it wrote total, was resumed
\* in the other Env and wrote total there; before that another instance had
\* read total in the first Env and then in the second
WroteInSecondEnv ==
  /\ last.op = "resume" /\ last.sig = "ok" /\ last.env = CallerEnv(2)
  /\ hist[last.inst].args = [step |-> IntV(1)]
  /\ hist[last.inst].yielded = <<IntV(1), IntV(2)>>
  /\ Bound(envs, CallerEnv(1), "total") = 1
  /\ Bound(envs, CallerEnv(2), "total") = 1
  /\ \E b \in 1..Len(insts) :
       /\ hist[b].args = [step |-> IntV(0)]
       /\ hist[b].yielded = <<IntV(0), IntV(11)>>
       /\ envs[BoundEnv(b)].parent_env = CallerEnv(2)

\* a parameter list that names fewer parameters than it has entries
RepeatsAName(params) == Cardinality(ParamNames(params)) < Len(params)

TopLevelVars(source) ==
  CASE source = "lazy" -> [hits |-> IntV(0)]
    [] source \in {"calls", "twins"} -> [mark |-> IntV(0)]
    [] source = "nest" -> [flag |-> IntV(0), hits |-> IntV(0), armed |-> IntV(0), count |-> IntV(0),
                         total |-> IntV(100)]
    [] OTHER -> <<>>

ControlInit ==
  /\ src \in ControlSourceNames
  /\ envs = (GlobalEnv :> [key_values |-> GlobalBindings(src) @@ TopLevelVars(src),
                           parent_env |-> NoEnv])
  /\ insts = <<>>
  /\ hist = <<>>
  /\ top = {}
  /\ last = Idle

\* instantiate_generator(state, name, args) for the control programs
ControlNew ==
  /\ Cardinality(top) < MaxControl
  /\ New

ControlNext == ControlNew \/ Resume \/ Collect \/ GeneratorReset \/ Invoke \/ Discard

ControlSpec == ControlInit /\ [][ControlNext]_vars

\* the instance i as Generator.new leaves it: every cursor 0, no cached
\* condition, nothing produced, the bound Env holding the arguments and
\* every private scope empty
Untouched(ins, h, heap, i) ==
  /\ ins[i].index = 0
  /\ \A n \in DOMAIN ins[i].cur : ins[i].cur[n] = 0 /\ ins[i].cond[n] = None
  /\ h[i].yielded = <<>>
  /\ DOMAIN heap[BoundEnv(i)].key_values = ParamNames(Decls(src)[ins[i].decl].params)
  /\ \A k \in 1..Len(h[i].args) :
       heap[BoundEnv(i)].key_values[Decls(src)[ins[i].decl].params[k]] = h[i].args[k]
  /\ \A e \in DOMAIN heap : (e.k = "block" /\ e.i = i) => heap[e] = NewEnv(NoEnv)

\* the value of the top-level variable hits
Hits(heap) == heap[GlobalEnv].key_values["hits"]

\* C21: a call of a gen declaration returns a generator value for a new
\* instance and does nothing else.  From the top level it executes no
\* statement and changes no Env and no other instance; an instance a step
\* creates and does not drive is as new left it; make(), a regular function
\* that calls noisy() and returns hits, returns the value hits had and leaves
\* it; the first resume of wrap, a generator that calls noisy() and yields
\* hits, yields the value hits had.  The global Env changes only in a step
\* in which an instance executes a statement, and an instance executes
\* statements only after Generator.resume has entered its body.
GeneratorCallRunsNothing ==
  [][/\ \A i \in (Len(insts) + 1)..Len(insts') :
          EventsOf(last'.tr, i) = {} => Untouched(insts', hist', envs', i)
     /\ last'.op = "new" =>
          /\ last'.sig = "ok" /\ last'.val = GenV(Len(insts) + 1)
          /\ last'.tr = <<>>
          /\ Len(insts') = Len(insts) + 1
          /\ \A e \in DOMAIN envs : envs'[e] = envs[e]
          /\ \A i \in 1..Len(insts) : insts'[i] = insts[i] /\ hist'[i] = hist[i]
     /\ envs'[GlobalEnv] # envs[GlobalEnv] =>
          \E k \in 1..Len(last'.tr) : last'.tr[k].ev = "exec"
     /\ \A k \in 1..Len(last'.tr) :
          last'.tr[k].ev = "exec" =>
            \E m \in 1..(k - 1) : last'.tr[m].i = last'.tr[k].i /\ last'.tr[m].ev = "resuming"
     /\ (src = "lazy" /\ last'.op = "invoke" /\ last'.decl = "make" /\ last'.args = <<>>) =>
          /\ last'.sig = "ok" /\ last'.val = Hits(envs)
          /\ last'.made = 1 /\ last'.tr = <<>>
          /\ envs'[GlobalEnv] = envs[GlobalEnv]
     /\ (src = "lazy" /\ last'.op = "resume" /\ insts[last'.inst].decl = "wrap"
           /\ insts[last'.inst].index # Done) =>
          IF hist[last'.inst].yielded = <<>>
          THEN /\ last'.sig = "ok" /\ last'.val = Hits(envs)
               /\ Len(insts') = Len(insts) + 1
               /\ envs'[GlobalEnv] = envs[GlobalEnv]
          ELSE Len(hist[last'.inst].yielded) = 1 =>
                 /\ last'.val = IntV(Hits(envs).v + 1)
                 /\ Hits(envs') = last'.val]_vars

\* make() was called after an instance of noisy had run: it returned the 1
\* that hits held and its own instance of noisy has executed nothing
MadeWithoutRunning ==
  /\ src = "lazy"
  /\ last.op = "invoke" /\ last.decl = "make" /\ last.sig = "ok"
  /\ last.val = IntV(1) /\ Hits(envs) = IntV(1)
  /\ last.made = 1
  /\ insts[Len(insts)].decl = "noisy" /\ insts[Len(insts)].cur[1] = 0

(***************************************************************************)
(* fib(n) driven to exhaustion (tests/test_generators.py, run_fib): one    *)
(* instance of fib for each upper bound, resumed and collected from the    *)
(* top level.                                                              *)
(***************************************************************************)
MaxFib == 10

\* state = run(FIB_SOURCE); instantiate_generator(state, "fib", {"n": n})
FibInit ==
  \E n \in 0..MaxFib :
    \E r \in {CallValue(FunV("fib"), <<IntV(n)>>, SoloState("fib"))} :
      /\ src = "fib"
      /\ envs = r.s.envs
      /\ insts = r.s.insts
      /\ hist = r.s.hist
      /\ top = {1}
      /\ last = Idle

FibNext == Resume \/ Collect \/ Discard

FibSpec == FibInit /\ [][FibNext]_vars

\* the Fibonacci numbers 0, 1, 1, 2, 3, 5, ...
RECURSIVE Fibonacci(_)
Fibonacci(k) == IF k < 2 THEN k ELSE Fibonacci(k - 1) + Fibonacci(k - 2)

\* the Fibonacci numbers that are <= n, in order
FibonacciUpTo(n) ==
  [k \in 1..Cardinality({j \in 0..(n + 1) : Fibonacci(j) <= n}) |-> IntV(Fibonacci(k - 1))]

\* C22: fib(n) produces the Fibonacci numbers that are <= n, in order, and
\* is exhausted after the last of them: 0 for n = 0 and 0, 1, 1, 2, 3, 5, 8
\* for n = 10.  After its k-th value the instance holds a = F(k-1), the
\* value just produced, b = F(k) and previous_a = F(k-2), so the three
\* assignments took effect in the order previous_a, a, b; when the loop has
\* ended a is the first Fibonacci number above n.
FibYieldsFibonacci ==
  \A i \in Instances :
    insts[i].decl = "fib" =>
      LET n == hist[i].args[1].v
          k == Len(hist[i].yielded)
          vars_ == envs[BoundEnv(i)].key_values
      IN  /\ IsPrefix(hist[i].yielded, FibonacciUpTo(n))
          /\ insts[i].index = Done => hist[i].yielded = FibonacciUpTo(n)
          /\ (n = 0 /\ insts[i].index = Done) => hist[i].yielded = <<IntV(0)>>
          /\ (n = 10 /\ insts[i].index = Done) =>
               hist[i].yielded = <<IntV(0), IntV(1), IntV(1), IntV(2), IntV(3), IntV(5), IntV(8)>>
          /\ (k > 0 /\ insts[i].index # Done) =>
               /\ vars_["a"] = IntV(Fibonacci(k - 1))
               /\ vars_["a"] = hist[i].yielded[k]
               /\ vars_["b"] = IntV(Fibonacci(k))
               /\ vars_["previous_a"] = IntV(IF k = 1 THEN 0 ELSE Fibonacci(k - 2))
          /\ insts[i].index = Done =>
               /\ vars_["a"] = IntV(Fibonacci(k)) /\ vars_["a"].v > n
               /\ vars_["b"] = IntV(Fibonacci(k + 1))
               /\ vars_["previous_a"] = IntV(Fibonacci(k - 1))
          /\ (last.op = "collect" /\ last.inst = i /\ last.sig = "ok") =>
               /\ insts[i].index = Done
               /\ \E m \in 0..k : last.val = ListV(SubSeq(hist[i].yielded, m + 1, k))

\* fib(10) was resumed to exhaustion, one value at a time
FibTenExhausted ==
  /\ last.op = "resume" /\ last.sig = "stop"
  /\ hist[1].args = <<IntV(10)>>
  /\ hist[1].yielded = <<IntV(0), IntV(1), IntV(1), IntV(2), IntV(3), IntV(5), IntV(8)>>
  /\ envs[BoundEnv(1)].key_values["a"] = IntV(13)

(***************************************************************************)
(* The node classes used directly (tests/test_generators.py,               *)
(* test_try_run_resumable_respects_next_parent_index_zero): the caller     *)
(* holds one tree, resumes any node of it, runs any child under its parent *)
(* through try_run_resumable with a next index of its choice, and resets   *)
(* any node.  The Env it passes holds flag.                                *)
(***************************************************************************)
\* the nodes of the tree rooted at n
RECURSIVE Subtree(_, _)
Subtree(nodes, n) ==
  {n} \cup UNION {Subtree(nodes, Children(nodes[n])[k]) : k \in DOMAIN Children(nodes[n])}

IsComposite(node) == node.kind \in {"block", "if", "while"}

\* the next_parent_index values the caller passes: those the node classes
\* pass themselves
NextIndexes == {0, 1, 3}

NodeOutcome(op, n, parent, next, on_done, r) ==
  [op |-> op, node |-> n, parent |-> parent, next |-> next, on_done |-> on_done,
   before |-> IF parent = 0 THEN 0 ELSE insts[1].cur[parent],
   sig |-> r.sig, val |-> r.val, err |-> r.err, sender |-> r.sender]

NodeInit ==
  \E flag \in {0, 1} :
    \E s \in {GeneratorNew(SoloState("node"), "probe", <<IntV(flag)>>, GlobalEnv)} :
      /\ src = "node"
      /\ envs = s.envs
      /\ insts = s.insts
      /\ hist = s.hist
      /\ top = {}
      /\ last = Idle

\* node.resume(env, context)
ResumeNode ==
  /\ last = Idle
  /\ \E n \in 1..Len(ProbeNodes) :
       \E r \in {resume(1, n, BoundEnv(1), State)} :
         /\ Commit(r)
         /\ last' = NodeOutcome("resume", n, 0, 0, FALSE, r)
         /\ UNCHANGED top

\* try_run_resumable(child, env, context, parent = parent,
\* next_parent_index = next, on_resumable_done = parent.reset or None)
TryRun ==
  /\ last = Idle
  /\ \E parent \in {n \in 1..Len(ProbeNodes) : IsComposite(ProbeNodes[n])} :
       \E k \in DOMAIN Children(ProbeNodes[parent]), next \in NextIndexes, on_done \in BOOLEAN :
         \E r \in {try_run_resumable(1, Children(ProbeNodes[parent])[k], BoundEnv(1), State,
                                     parent, next, on_done)} :
           /\ Commit(r)
           /\ last' = NodeOutcome("try", Children(ProbeNodes[parent])[k], parent, next, on_done, r)
           /\ UNCHANGED top

\* node.reset()
ResetNode ==
  /\ last = Idle
  /\ \E n \in {m \in 1..Len(ProbeNodes) : IsComposite(ProbeNodes[m])} :
       \E r \in {Res(reset(State, 1, n), "ok", None)} :
         /\ Commit(r)
         /\ last' = NodeOutcome("reset", n, 0, 0, FALSE, r)
         /\ UNCHANGED top

NodeNext == ResumeNode \/ TryRun \/ ResetNode \/ Discard

NodeSpec == NodeInit /\ [][NodeNext]_vars

\* C23: when try_run_resumable ends with YieldValue, the signal is the one
\* the child raised (a yield statement of the subtree of the child, with
\* the value of its operand), and the cursor of the parent is the next
\* index given when the sender is the child itself and the cursor it had
\* before when the sender is deeper in the child.
YieldAdvancesParentOnlyForChild ==
  [][(last'.op = "try" /\ last'.sig = "yield") =>
       /\ last'.sender \in Subtree(ProbeNodes, last'.node)
       /\ ProbeNodes[last'.sender].kind = "yield"
       /\ last'.val = ProbeNodes[last'.sender].expr.value
       /\ insts'[1].cur[last'.parent] =
            IF last'.sender = last'.node THEN last'.next ELSE insts[1].cur[last'.parent]
       /\ last'.sender # last'.node => insts'[1].cur[last'.node] # Done]_vars

\* the body of the loop was run under the loop with next index 3 and the
\* yield two levels below it suspended it: the cursor of the loop kept the
\* 1 it had, the cursor of the If, whose child the yield is, went to 3
YieldFromDeeperLeftParentAlone ==
  /\ last.op = "try" /\ last.sig = "yield"
  /\ last.parent = 1 /\ last.node = 2 /\ last.sender = 4
  /\ last.next = 3 /\ last.before = 1
  /\ insts[1].cur[1] = 1
  /\ insts[1].cur[3] = 3
  /\ insts[1].cur[2] = 0


\* the tree rooted at n is as constructed: cursors 0, no cached condition,
\* fresh private scopes
AsConstructed(ins, heap, n) ==
  \A m \in Subtree(ProbeNodes, n) :
    /\ ins.cur[m] = 0
    /\ ins.cond[m] = None
    /\ (ProbeNodes[m].kind = "block" /\ ProbeNodes[m].own_environment) =>
         heap[BlockEnv(1, m)] = NewEnv(NoEnv)

\* C24: when the child raises ResumableDone, try_run_resumable returns
\* normally; the cursor of the parent has been set to the next index given,
\* an index of 0 included, and the completion callback, when one is given,
\* has run after that (with parent.reset as the callback the parent and
\* everything below it are as constructed); without a callback the child
\* stays done.
DoneChildAdvancesParent ==
  [][(last'.op = "try" /\ IsComposite(ProbeNodes[last'.node])
        /\ last'.sig \notin {"yield", "err"}) =>
       /\ last'.sig = "ok"
       /\ last'.val = None
       /\ ~last'.on_done =>
            /\ insts'[1].cur[last'.parent] = last'.next
            /\ insts'[1].cur[last'.node] = Done
       /\ last'.on_done => AsConstructed(insts'[1], envs', last'.parent)]_vars

\* the If, finished, was run under the body block standing at 1 with next
\* index 0 and no callback: the block went back to 0
NextIndexZeroRespected ==
  /\ last.op = "try" /\ last.sig = "ok" /\ ~last.on_done
  /\ last.parent = 2 /\ last.node = 3
  /\ last.next = 0 /\ last.before = 1
  /\ insts[1].cur[2] = 0
  /\ insts[1].cur[3] = Done


\* C30: resuming a composite node whose cursor is the done marker, with no
\* reset in between, is an error.
DoneNodeResumeIsAnError ==
  [][(last'.op = "resume" /\ IsComposite(ProbeNodes[last'.node])
        /\ insts[1].cur[last'.node] = Done) => last'.sig = "err"]_vars


\* the nodes that enclose node n, n excluded
RECURSIVE Ancestors(_, _)
Ancestors(nodes, n) ==
  IF ParentOf(nodes, n) = 0 THEN {}
  ELSE {ParentOf(nodes, n)} \cup Ancestors(nodes, ParentOf(nodes, n))

\* the cursor node a has while its child c runs: a Block the index of c, an
\* If 1 in its then branch and 2 in its else branch, a While 1
CursorAt(nodes, a, c) ==
  CASE nodes[a].kind = "block" ->
         (CHOOSE k \in DOMAIN nodes[a].statements : nodes[a].statements[k] = c) - 1
    [] nodes[a].kind = "if" -> IF nodes[a].then = c THEN 1 ELSE 2
    [] nodes[a].kind = "while" -> 1

\* the child of a on the way down to n
Towards(nodes, a, n) ==
  CHOOSE c \in 1..Len(nodes) :
    ParentOf(nodes, c) = a /\ (c = n \/ c \in Ancestors(nodes, n))

\* C25: a return statement executed anywhere in the body of an instance
\* ends the resume at once: it is the last step of the instance, the caller
\* gets the exhaustion signal carrying the value of its operand, every
\* enclosing Block, If and While keeps the cursor it had while the return
\* ran (none advanced, none done), and no scope is reset: the bindings are
\* the ones the return statement saw.
ReturnPropagatesUntouched ==
  \A i \in Instances :
    \A k \in ReturnEvents(insts, last.tr, i) :
      LET nodes == Decls(src)[insts[i].decl].nodes
          n == last.tr[k].n
      IN  /\ \A m \in EventsOf(last.tr, i) : m <= k
          /\ insts[i].index = Done
          /\ \A a \in Ancestors(nodes, n) :
               insts[i].cur[a] = CursorAt(nodes, a, Towards(nodes, a, n))
          /\ ScopesOf(envs, i) = last.tr[k].scopes
          /\ (last.op = "resume" /\ last.inst = i) => last.sig = "stop"
          /\ (last.op = "resume" /\ last.inst = i /\ insts[i].decl = "bail") =>
               last.val = IntV(11)
          /\ (last.op = "collect" /\ last.inst = i /\ insts[i].decl = "bail") =>
               /\ last.sig = "ok"
               /\ last.val.v # <<>>
               /\ last.val.v[Len(last.val.v)] = IntV(11)

\* bail(2) returned from inside the If inside the loop: 11 reached the
\* caller, the loop, its body and the If are still where they were, t and i
\* are still bound to 1
ReturnedThroughIfAndWhile ==
  /\ src = "bail"
  /\ last.op = "resume" /\ last.sig = "stop" /\ last.val = IntV(11)
  /\ \E i \in Instances :
       /\ last.inst = i
       /\ hist[i].args = <<IntV(2)>>
       /\ hist[i].yielded = <<IntV(0), IntV(1)>>
       /\ insts[i].cur[1] = 1 /\ insts[i].cur[3] = 1 /\ insts[i].cur[4] = 2
       /\ insts[i].cur[7] = 1 /\ insts[i].cur[8] = 0
       /\ envs[BlockEnv(i, 4)].key_values = [t |-> IntV(1)]
       /\ envs[BoundEnv(i)].key_values = [limit |-> IntV(2), i |-> IntV(1)]


\* the value bound to a name of instance e.i under the bindings logged
\* with event e; the control programs bind every name in one scope only
Logged(e, name) ==
  e.scopes[CHOOSE x \in DOMAIN e.scopes : name \in DOMAIN e.scopes[x]][name]

\* the value of a condition `name == operand` or `name < operand`, the
\* operand a literal or a name, under the bindings logged with event e
HoldsAt(cond, e) ==
  LET left == Logged(e, cond.left.name).v
      right == IF cond.right.e = "lit" THEN cond.right.value.v
               ELSE Logged(e, cond.right.name).v
  IN  IF cond.op = "==" THEN left = right ELSE left < right

\* the event of instance i that follows event k in trace tr, 0 if none
NextEvent(tr, i, k) ==
  IF \E m \in EventsOf(tr, i) : m > k
  THEN CHOOSE m \in EventsOf(tr, i) : m > k /\ \A x \in EventsOf(tr, i) : x > k => m <= x
  ELSE 0

IfNodes(nodes) == {f \in 1..Len(nodes) : nodes[f].kind = "if"}

\* the values choose(flag) has to produce
ExpectedChoose(flag) ==
  IF flag = 1 THEN <<IntV(10), IntV(11), IntV(20), IntV(21), IntV(99)>>
  ELSE <<IntV(20), IntV(21), IntV(10), IntV(11)>>

\* C26: an If evaluates its condition once per pass.  When an instance is
\* resumed with an If standing in a branch (cursor 1 or 2), the condition of
\* that If is not evaluated, and no statement of the other branch runs,
\* before an enclosing loop has started a new iteration; every evaluation
\* is followed by a step in the branch the value selects, or by a step
\* outside the If when the value is false and there is no else branch; an
\* If standing in a branch holds the value that selected it, whatever the
\* condition would give now; and when the body has run to its end the last
\* If is done.
IfDecidesOncePerPass ==
  [][\A i \in Instances :
       LET nodes == Decls(src)[insts[i].decl].nodes
           tr == last'.tr
           events == EventsOf(tr, i)
       IN  \A f \in IfNodes(nodes) :
             LET evaluations == {k \in events : tr[k].ev = "cond" /\ tr[k].n = f}
                 iterations == {k \in events : tr[k].ev = "cond"
                                                /\ tr[k].n \in Ancestors(nodes, f)
                                                /\ nodes[tr[k].n].kind = "while"}
                 other == IF insts[i].cur[f] = 1
                          THEN (IF nodes[f].else_ = 0 THEN {}
                                ELSE Subtree(nodes, nodes[f].else_))
                          ELSE Subtree(nodes, nodes[f].then)
             IN  /\ insts[i].cur[f] \in {1, 2} =>
                      /\ \A k \in evaluations : \E m \in iterations : m < k
                      /\ \A k \in events :
                           tr[k].n \in other => \E m \in evaluations : m < k
                 /\ \A k \in evaluations :
                      LET after == NextEvent(tr, i, k)
                      IN  IF HoldsAt(nodes[f].condition, tr[k])
                          THEN after # 0 /\ tr[after].n \in Subtree(nodes, nodes[f].then)
                          ELSE IF nodes[f].else_ # 0
                          THEN after # 0 /\ tr[after].n \in Subtree(nodes, nodes[f].else_)
                          ELSE after # 0 => tr[after].n \notin Subtree(nodes, f)
                 /\ insts'[i].cur[f] = 1 => Truthy(insts'[i].cond[f])
                 /\ insts'[i].cur[f] = 2 =>
                      insts'[i].cond[f] # None /\ ~Truthy(insts'[i].cond[f])
                 /\ (insts'[i].decl = "choose" /\ insts'[i].index = Done) =>
                      /\ insts'[i].cur[15] = Done
                      /\ hist'[i].yielded = ExpectedChoose(hist'[i].args[1].v)
                 /\ insts'[i].decl = "choose" =>
                      IsPrefix(hist'[i].yielded, ExpectedChoose(hist'[i].args[1].v))]_vars

\* choose(1) was resumed inside the then branch after the branch had set
\* flag to 0: the condition is false now, the If did not evaluate it, and
\* the second yield of the then branch produced 11
ReenteredBranchAfterConditionChanged ==
  /\ src = "choose"
  /\ last.op = "resume" /\ last.sig = "ok" /\ last.val = IntV(11)
  /\ \E i \in Instances :
       /\ last.inst = i
       /\ hist[i].args = <<IntV(1)>>
       /\ envs[BoundEnv(i)].key_values["flag"] = IntV(0)
       /\ insts[i].cur[5] = 1
       /\ insts[i].cond[5] = BoolV(TRUE)
       /\ \A k \in 1..Len(last.tr) : last.tr[k].ev # "cond"


\* the event of instance i that precedes event k in trace tr, 0 if none
PrevEvent(tr, i, k) ==
  IF \E m \in EventsOf(tr, i) : m < k
  THEN CHOOSE m \in EventsOf(tr, i) : m < k /\ \A x \in EventsOf(tr, i) : x < k => x <= m
  ELSE 0

WhileNodes(nodes) == {w \in 1..Len(nodes) : nodes[w].kind = "while"}

\* C27: a While evaluates its condition before every iteration and never
\* on re-entering a suspended body.  In one resume of an instance: a step
\* inside the body of a loop follows another step inside the body, or an
\* evaluation of the condition that gave true, or, when the loop was
\* suspended in its body, the entry of the resume; a resume that finds the
\* loop suspended at a yield of its body does not start by evaluating the
\* condition unless that yield ends the body; an evaluation that gives true
\* is followed by a step of the body, and one that gives false, the very
\* first included, is followed in the same resume by the statement after
\* the loop, not by the body.
WhileChecksBeforeEachIteration ==
  [][last'.op = "resume" =>
       LET i == last'.inst
           nodes == Decls(src)[insts[i].decl].nodes
           tr == last'.tr
           events == EventsOf(tr, i)
       IN  \A w \in WhileNodes(nodes) :
             LET body == Subtree(nodes, nodes[w].body)
                 evaluations == {k \in events : tr[k].ev = "cond" /\ tr[k].n = w}
             IN  /\ \A m \in events :
                      (tr[m].ev # "resuming" /\ tr[m].n \in body) =>
                        LET p == tr[PrevEvent(tr, i, m)]
                        IN  \/ p.ev # "resuming" /\ p.n \in body
                            \/ p.ev = "cond" /\ p.n = w /\ HoldsAt(nodes[w].condition, p)
                            \/ p.ev = "resuming" /\ insts[i].cur[w] = 1
                 /\ (insts[i].cur[w] = 1 /\ hist[i].at \in body
                       /\ StepAfter(nodes, hist[i].at) # w) =>
                      \A k \in evaluations : tr[PrevEvent(tr, i, k)].ev # "resuming"
                 /\ \A k \in evaluations :
                      LET after == NextEvent(tr, i, k)
                      IN  IF HoldsAt(nodes[w].condition, tr[k])
                          THEN after # 0 /\ tr[after].n \in body
                          ELSE IF StepAfter(nodes, w) = 0 THEN after = 0
                          ELSE after # 0 /\ tr[after].n = StepAfter(nodes, w)
                 /\ (insts[i].decl = "only_done" /\ last'.sig = "ok") =>
                      /\ last'.val = StrV("done")
                      /\ [k \in 1..Len(tr) |-> <<tr[k].ev, tr[k].n>>] =
                           << <<"resuming", 1>>, <<"cond", 2>>, <<"exec", 5>> >>
                      /\ insts'[i].cur[2] = Done
                      /\ insts'[i].cur[3] = 0]_vars

\* bail(2) was resumed in the body of its loop: the rest of the body ran
\* without the condition, the body ended, the condition was evaluated for
\* the second iteration and the body ran from its first statement to its
\* yield
SecondIterationAfterCheck ==
  /\ src = "bail"
  /\ last.op = "resume" /\ last.sig = "ok" /\ last.val = IntV(1)
  /\ [k \in 1..Len(last.tr) |-> <<last.tr[k].ev, last.tr[k].n>>] =
       << <<"resuming", 1>>, <<"cond", 7>>, <<"exec", 10>>, <<"cond", 3>>,
          <<"exec", 5>>, <<"exec", 6>> >>


\* the values sweep(n) has to produce: 100 in the first iteration only,
\* and the number of the iteration in each
ExpectedSweep(n) ==
  IF n = 0 THEN <<>> ELSE <<IntV(100)>> \o [k \in 1..n |-> IntV(k - 1)]

PrivateBlocks(nodes, among) ==
  {b \in among : nodes[b].kind = "block" /\ nodes[b].own_environment}

\* C28: when the body of a While has completed an iteration, the body is as
\* constructed before the condition is evaluated again.  At every
\* evaluation of the condition of a loop, every private scope in the body
\* is empty; a loop at cursor 0 or done (its last evaluation gave false)
\* has every node of its body at cursor 0, no cached condition in a nested
\* If and fresh private scopes; and in sweep each iteration declares seen
\* and j anew, the nested If decides on the seen of that iteration, and the
\* inner loop, done at the end of each iteration, runs again in the next.
BodyAsConstructedBeforeNextIteration ==
  [][\A i \in 1..Len(insts') :
       LET nodes == Decls(src)[insts'[i].decl].nodes
           tr == last'.tr
       IN  /\ \A w \in WhileNodes(nodes) :
                LET body == Subtree(nodes, nodes[w].body)
                IN  /\ \A k \in EventsOf(tr, i) :
                         (tr[k].ev = "cond" /\ tr[k].n = w) =>
                           \A b \in PrivateBlocks(nodes, body) :
                             tr[k].scopes[BlockEnv(i, b)] = NewEnv(NoEnv).key_values
                    /\ insts'[i].cur[w] \in {0, Done} =>
                         \A m \in body :
                           /\ insts'[i].cur[m] = 0
                           /\ insts'[i].cond[m] = None
                           /\ m \in PrivateBlocks(nodes, body) =>
                                envs'[BlockEnv(i, m)] = NewEnv(NoEnv)
           /\ insts'[i].decl = "sweep" =>
                /\ IsPrefix(hist'[i].yielded, ExpectedSweep(hist'[i].args[1].v))
                /\ insts'[i].index = Done =>
                     hist'[i].yielded = ExpectedSweep(hist'[i].args[1].v)
                /\ hist'[i].at = 13 =>
                     LET round == envs'[BoundEnv(i)].key_values["i"]
                     IN  /\ envs'[BlockEnv(i, 4)].key_values = [seen |-> round, j |-> IntV(0)]
                         /\ envs'[BlockEnv(i, 11)].key_values = [k |-> round]
                         /\ insts'[i].cond[6] = BoolV(round = IntV(0))
                         /\ insts'[i].cur[6] = Done
                         /\ insts'[i].cur[10] = 1]_vars

\* sweep(2) is suspended in its second iteration: seen is 1, the nested If
\* decided again and this time skipped its branch, and the inner loop, done
\* in the first iteration, is running again
SecondIterationStartedAfresh ==
  /\ src = "sweep"
  /\ last.op = "resume" /\ last.sig = "ok" /\ last.val = IntV(1)
  /\ \E i \in Instances :
       /\ last.inst = i
       /\ hist[i].yielded = <<IntV(100), IntV(0), IntV(1)>>
       /\ envs[BlockEnv(i, 4)].key_values = [seen |-> IntV(1), j |-> IntV(0)]
       /\ insts[i].cond[6] = BoolV(FALSE)
       /\ insts[i].cur[7] = 0
       /\ insts[i].cur[10] = 1
       /\ \E k \in 1..Len(last.tr) :
            /\ last.tr[k].ev = "cond" /\ last.tr[k].n = 3
            /\ last.tr[k].scopes[BlockEnv(i, 4)] = NewEnv(NoEnv).key_values


\* the last statement of Block b, 0 for an empty Block
LastStatement(node) ==
  IF node.statements = <<>> THEN 0 ELSE node.statements[Len(node.statements)]

\* C29: the statements of a Block run in source order across all the
\* resumes of an instance.  In the steps of instance i: a define, an
\* assignment or an expression statement is followed, in the same resume,
\* by the statement that follows it in the source (none at the end of the
\* body); a yield or a return is the last step of its resume; a resume
\* starts with the first statement of the body the first time and
\* afterwards with the statement that follows the yield that suspended the
\* instance; and a Block becomes done only in a resume that ran something
\* of its last statement or re-entered a yield inside its last statement,
\* with nothing of the Block run after that.
BlockRunsStatementsInOrder ==
  [][\A i \in 1..Len(insts') :
       LET nodes == Decls(src)[insts'[i].decl].nodes
           tr == last'.tr
           events == EventsOf(tr, i)
           suspended == IF i \in Instances THEN hist[i].at ELSE 0
       IN  /\ \A k \in events :
                LET after == NextEvent(tr, i, k)
                    before == PrevEvent(tr, i, k)
                    at == IF before = 0 THEN suspended ELSE tr[before].n
                    target == CASE tr[k].ev = "resuming" /\ at = 0 -> FirstStep(nodes, 1)
                                [] tr[k].ev = "resuming" /\ at # 0 -> StepAfter(nodes, at)
                                [] OTHER -> StepAfter(nodes, tr[k].n)
                IN  CASE tr[k].ev = "exec" /\ nodes[tr[k].n].kind = "yield" ->
                           after # 0 => tr[after].ev = "resuming"
                      [] tr[k].ev = "exec" /\ nodes[tr[k].n].kind = "return" -> after = 0
                      [] tr[k].ev = "cond" -> TRUE
                      [] OTHER ->
                           IF target = 0 THEN after = 0
                           ELSE /\ after # 0
                                /\ tr[after].ev # "resuming"
                                /\ tr[after].n = target
           /\ \A b \in 1..Len(nodes) :
                (/\ nodes[b].kind = "block"
                 /\ insts'[i].cur[b] = Done
                 /\ i \in Instances => insts[i].cur[b] # Done
                 /\ LastStatement(nodes[b]) # 0) =>
                  LET within == {k \in events : tr[k].ev # "resuming"
                                                 /\ tr[k].n \in Subtree(nodes, b)}
                      final == Subtree(nodes, LastStatement(nodes[b]))
                  IN  /\ within = {} => suspended \in final
                      /\ within # {} =>
                           tr[CHOOSE k \in within : \A m \in within : m <= k].n \in final
                      /\ \A c \in DOMAIN nodes[b].statements :
                           IsComposite(nodes[nodes[b].statements[c]]) =>
                             insts'[i].cur[nodes[b].statements[c]] = Done]_vars

\* bail(1) resumed after its first yield ran the rest of the loop body in
\* order, left the loop and stopped at the statement after it
RestOfBodyThenNextStatement ==
  /\ src = "bail"
  /\ last.op = "resume" /\ last.sig = "ok" /\ last.val = IntV(99)
  /\ [k \in 1..Len(last.tr) |-> <<last.tr[k].ev, last.tr[k].n>>] =
       << <<"resuming", 1>>, <<"cond", 7>>, <<"exec", 10>>, <<"cond", 3>>,
          <<"exec", 11>> >>
  /\ \E i \in Instances :
       /\ last.inst = i
       /\ hist[i].yielded = <<IntV(0), IntV(99)>>
       /\ insts[i].cur[1] = 3


\* C31: expressions are evaluated left to right.  diff() computes
\* next(g) - next(g) on a new instance of two and pass() hands the same two
\* calls to sub as its arguments: both give 1 - 2, having resumed the
\* instance twice; sub(a, b) binds its arguments in the order given; and in
\* stuck() the left operand fails before the right one is evaluated, so the
\* instance is never resumed.
OperandsEvaluatedLeftToRight ==
  [][(src = "order" /\ last'.op = "invoke") =>
       /\ (last'.decl \in {"diff", "pass"} /\ last'.args = <<>>) =>
            /\ last'.sig = "ok"
            /\ last'.val = IntV(-1)
            /\ last'.made = 1
            /\ hist'[Len(insts')].yielded = <<IntV(1), IntV(2)>>
            /\ [k \in 1..Len(last'.tr) |-> <<last'.tr[k].ev, last'.tr[k].n>>] =
                 << <<"resuming", 1>>, <<"exec", 2>>, <<"resuming", 1>>, <<"exec", 3>> >>
       /\ (last'.decl = "sub" /\ Len(last'.args) = 2) =>
            /\ last'.sig = "ok"
            /\ last'.val = IntV(last'.args[1].v - last'.args[2].v)
       /\ (last'.decl = "stuck" /\ last'.args = <<>>) =>
            /\ last'.sig = "err" /\ last'.err = "KeyError"
            /\ last'.made = 1
            /\ last'.tr = <<>>
            /\ Untouched(insts', hist', envs', Len(insts'))]_vars

\* diff() returned -1: the left next(g) took the 1 and the right one the 2
DifferenceOfTwoNexts ==
  /\ src = "order"
  /\ last.op = "invoke" /\ last.decl = "diff" /\ last.sig = "ok"
  /\ last.val = IntV(-1)
  /\ hist[Len(insts)].yielded = <<IntV(1), IntV(2)>>


(***************************************************************************)
(* Regular functions called from the top level (tests/test_functions.py,   *)
(* invoke): the recursive fib and a function that returns from inside a    *)
(* block in a block in an if in a loop, each called with every argument    *)
(* up to MaxCall, in any order.                                            *)
(***************************************************************************)
CallsInit ==
  /\ src = "calls"
  /\ envs = (GlobalEnv :> [key_values |-> GlobalBindings(src) @@ TopLevelVars(src),
                           parent_env |-> NoEnv])
  /\ insts = <<>>
  /\ hist = <<>>
  /\ top = {}
  /\ last = Idle

\* invoke(state, name, [n])
CallFunction ==
  /\ last = Idle
  /\ \E d \in {x \in DOMAIN Decls(src) : Decls(src)[x].kind = "fun"}, n \in 0..MaxCall :
       \E r \in {CallValue(FunV(d), <<IntV(n)>>, State)} :
         /\ Commit(r)
         /\ last' = InvokeOutcome(d, <<IntV(n)>>, r)
         /\ UNCHANGED top

CallsNext == CallFunction \/ Discard

CallsSpec == CallsInit /\ [][CallsNext]_vars

\* the value of the top-level variable mark
Mark(heap) == heap[GlobalEnv].key_values["mark"]

\* C32: a return executed anywhere in the body of a function ends the call
\* at once with its value, and a body that ends without one gives null.
\* find(n) returns 12 - n from the innermost block, in the iteration where
\* i + n = 2, having set mark there and never reaching the statements after
\* it, and gives null after its last statement when no iteration matches;
\* skip(n) gives null from a bare return in nested blocks for n <= 1,
\* leaving mark alone, and otherwise runs on to return n + n; fib(n) is the
\* n-th Fibonacci number, every recursive call returning to its own caller
\* only; and the Envs of a call are gone when it ends.
ReturnEndsTheCall ==
  [][last'.op = "invoke" =>
       /\ last'.sig = "ok"
       /\ DOMAIN envs' = {GlobalEnv}
       /\ last'.decl = "fib" =>
            /\ last'.val = IntV(Fibonacci(last'.args[1].v))
            /\ last'.args[1].v = 5 => last'.val = IntV(5)
            /\ envs' = envs
       /\ last'.decl = "skip" =>
            IF last'.args[1].v <= 1
            THEN last'.val = None /\ envs' = envs
            ELSE /\ last'.val = IntV(2 * last'.args[1].v)
                 /\ Mark(envs') = IntV(0 - last'.args[1].v)
       /\ last'.decl = "find" =>
            IF last'.args[1].v <= 2
            THEN /\ last'.val = IntV(12 - last'.args[1].v)
                 /\ Mark(envs') = IntV(22 - last'.args[1].v)
            ELSE /\ last'.val = None
                 /\ Mark(envs') = IntV(100 + last'.args[1].v)]_vars

\* find(0) returned 12 from the third iteration of its loop: mark holds the
\* 22 set just before the return, not the 100 of the last statement
ReturnedFromThirdIteration ==
  /\ src = "calls"
  /\ last.op = "invoke" /\ last.decl = "find" /\ last.args = <<IntV(0)>>
  /\ last.sig = "ok" /\ last.val = IntV(12)
  /\ Mark(envs) = IntV(22)


(***************************************************************************)
(* The leaf statements.  NonStatefulResumable.clone returns self, so the   *)
(* Yield, Return, Define, Assign and ExpressionStatement objects of a      *)
(* template are the very objects every instance made from it runs.  The    *)
(* model gives each Generator object a cursor slot and a condition slot    *)
(* per node; for a leaf these slots stand for the one shared object.       *)
(***************************************************************************)
\* the leaf statements of the body of Generator object x
Leaves(x) ==
  {n \in 1..Len(Decls(src)[insts[x].decl].nodes) :
     ~IsComposite(Decls(src)[insts[x].decl].nodes[n])}

\* C33: in every reachable state, every leaf statement of every Generator
\* object, template or instance, has the cursor 0 its constructor gave it
\* and no cached condition: no resume and no reset through any object
\* changes the state of a leaf, so the leaf slots of the objects of one
\* declaration are equal and the one shared object behaves the same for
\* every instance that reaches it.
LeavesKeepNoState ==
  \A x \in 1..Len(insts) :
    /\ \A n \in Leaves(x) : insts[x].cur[n] = 0 /\ insts[x].cond[n] = None
    /\ \A y \in 1..Len(insts) :
         insts[y].decl = insts[x].decl =>
           \A n \in Leaves(x) : insts[y].cur[n] = insts[x].cur[n]

\* an instance was resumed to the yield statement through which another
\* instance of the same template ran to exhaustion, the loop having reset
\* its body in both
SharedLeafRunThroughTwoInstances ==
  /\ last.op = "resume" /\ last.sig = "ok"
  /\ hist[last.inst].at \in Leaves(last.inst)
  /\ Len(hist[last.inst].yielded) = 2
  /\ \E t \in Templates(hist), b \in 1..Len(insts) :
       /\ b # last.inst /\ b \notin Templates(hist)
       /\ insts[t].decl = insts[b].decl /\ insts[b].decl = insts[last.inst].decl
       /\ insts[b].index = Done
       /\ Len(hist[b].yielded) = 2


(***************************************************************************)
(* Instances driven from inside generator bodies.  The top level of the    *)
(* program has declared flag and hits and has run `var g = selfish();`,   *)
(* so the global g holds instance 1; the driver resumes and collects g and *)
(* the instances it makes itself, and calls the declared functions.        *)
(***************************************************************************)
NestInit ==
  \E s \in {GeneratorNew([SoloState("nest") EXCEPT
                            !.envs[GlobalEnv].key_values = @ @@ TopLevelVars("nest")],
                         "selfish", <<>>, GlobalEnv)} :
    /\ src = "nest"
    /\ envs = [s.envs EXCEPT ![GlobalEnv].key_values = ("g" :> GenV(1)) @@ @]
    /\ insts = s.insts
    /\ hist = s.hist
    /\ top = {1}
    /\ last = Idle

NestNext == New \/ Resume \/ Collect \/ Invoke \/ Discard

NestSpec == NestInit /\ [][NestNext]_vars

\* C34: a resume that signals exhaustion leaves the resumed instance marked
\* done: the exhaustion of an instance the body drives with next is not
\* reported as the exhaustion of the resumed instance.
ExhaustionIsOfTheResumedInstance ==
  (last.op = "resume" /\ last.sig = "stop") => insts[last.inst].index = Done


\* C35: an instance never runs in two nested resume calls at once.  During
\* a resume issued by the driver, a second resume of the same instance can
\* only come from inside its running body; it fails with an error, so the
\* driver's resume fails too, and the instance executes nothing after it.
NoResumeInsideOwnBody ==
  last.op = "resume" =>
    \A k \in 2..Len(last.tr) :
      (last.tr[k].i = last.inst /\ last.tr[k].ev = "resuming") =>
        /\ last.sig = "err"
        /\ \A m \in (k + 1)..Len(last.tr) : last.tr[m].i # last.inst


\* the statement or condition the cursors of a tree designate below node n:
\* the node at which the next resume logs its first step
RECURSIVE Designated(_, _, _)
Designated(nodes, cur, n) ==
  CASE nodes[n].kind = "block" ->
         IF cur[n] < Len(nodes[n].statements)
         THEN Designated(nodes, cur, nodes[n].statements[cur[n] + 1])
         ELSE StepAfter(nodes, n)
    [] nodes[n].kind = "while" -> IF cur[n] = 0 THEN n ELSE Designated(nodes, cur, nodes[n].body)
    [] nodes[n].kind = "if" ->
         IF cur[n] = 0 THEN n
         ELSE Designated(nodes, cur, IF cur[n] = 1 THEN nodes[n].then ELSE nodes[n].else_)
    [] OTHER -> n

\* the last step instance i logged in trace tr
LastEvent(tr, i) == CHOOSE k \in EventsOf(tr, i) : \A m \in EventsOf(tr, i) : m <= k

\* the value of the top-level variable count
Count(heap) == heap[GlobalEnv].key_values["count"].v

\* C36: a resume that fails with a runtime error raised by a statement (or
\* by a condition) hands the error to its caller and leaves the instance
\* where the statement began: the instance is not marked done and has
\* yielded nothing more, every enclosing Block, If and While has the cursor
\* it had while the statement ran and the statement's own cursor is 0, so
\* the cursors designate the failing statement; the bindings of the instance
\* are those the statements before it left, and count holds what the
\* statements of this resume added to it.  Every resume starts at the step
\* the cursors designate (none when the body has nothing left to run), so a
\* later resume starts at the failing statement and runs none of the
\* earlier ones again.
ErrorLeavesInstanceAtFailingStatement ==
  [][\A i \in Instances :
       (last'.op = "resume" /\ last'.inst = i /\ EventsOf(last'.tr, i) # {}) =>
         LET nodes == Decls(src)[insts[i].decl].nodes
             tr == last'.tr
             k == LastEvent(tr, i)
             n == tr[k].n
         IN  /\ tr[1].i = i /\ tr[1].ev = "resuming"
             /\ (IF NextEvent(tr, i, 1) = 0 THEN 0 ELSE tr[NextEvent(tr, i, 1)].n)
                  = Designated(nodes, insts[i].cur, 1)
             /\ last'.sig = "err" =>
                  /\ last'.err \in {"KeyError", "TypeError"}
                  /\ tr[k].ev \in {"exec", "cond"}
                  /\ insts'[i].index = 0
                  /\ hist'[i].yielded = hist[i].yielded
                  /\ insts'[i].cur[n] = 0
                  /\ \A a \in Ancestors(nodes, n) :
                       insts'[i].cur[a] = CursorAt(nodes, a, Towards(nodes, a, n))
                  /\ Designated(nodes, insts'[i].cur, 1) = n
                  /\ ScopesOf(envs', i) = tr[k].scopes
                  /\ insts[i].decl = "faulty" =>
                       Count(envs') = Count(envs)
                         + Cardinality({m \in EventsOf(tr, i) : m # k /\ tr[m].n = 2})
                         + 10 * Cardinality({m \in EventsOf(tr, i) : m # k /\ tr[m].n = 9})]_vars

\* an instance of faulty was resumed after a resume of it had failed in
\* the third statement of the branch: the resume started at that statement,
\* yielded its value and left count as the failed resume had left it
ResumedAtFailedStatement ==
  /\ last.op = "resume" /\ last.sig = "ok" /\ last.val = IntV(6)
  /\ insts[last.inst].decl = "faulty"
  /\ hist[last.inst].yielded = <<IntV(6)>>
  /\ Len(last.tr) = 3
  /\ last.tr[2].n = 10 /\ last.tr[3].n = 11
  /\ Count(envs) = 11


\* C37: new(args), called on a Generator object that has been driven, part
\* of the way or to exhaustion, returns a new instance as the constructors
\* leave it: not done, every cursor 0, no cached condition, nothing yielded,
\* a bound Env that holds exactly args and has no parent, every private
\* scope empty; and it leaves every object that existed, the one it was
\* called on included, with its cursors, conditions, scopes and history, as
\* well as the Envs of the caller.
NewOnDrivenInstanceIsFresh ==
  [][(last'.op = "new" /\ last'.sig = "ok") =>
       /\ Len(insts') = Len(insts) + 1
       /\ last'.val = GenV(Len(insts'))
       /\ insts'[Len(insts')] =
            [decl |-> insts[last'.inst].decl, index |-> 0, bound |-> TRUE, env |-> GlobalEnv,
             body |-> Len(insts'),
             cur |-> [n \in DOMAIN insts[last'.inst].cur |-> 0],
             cond |-> [n \in DOMAIN insts[last'.inst].cur |-> None]]
       /\ hist'[Len(insts')].yielded = <<>>
       /\ envs'[BoundEnv(Len(insts'))] = [key_values |-> last'.args, parent_env |-> NoEnv]
       /\ \A e \in DOMAIN envs' :
            (e.k = "block" /\ e.i = Len(insts')) => envs'[e] = NewEnv(NoEnv)
       /\ \A y \in 1..Len(insts) :
            /\ insts'[y] = insts[y]
            /\ hist'[y] = hist[y]
            /\ OwnEnvs(envs', y) = OwnEnvs(envs, y)
       /\ \A e \in CallerEnvs : envs'[e] = envs[e]]_vars

\* new was called on an instance suspended in the second iteration of its
\* loop, with a cached condition and bindings in its scopes
NewCalledOnSuspendedInstance ==
  /\ last.op = "new" /\ last.sig = "ok"
  /\ last.inst \notin Templates(hist)
  /\ Len(hist[last.inst].yielded) = 2
  /\ insts[last.inst].index = 0
  /\ \E n \in DOMAIN insts[last.inst].cur : insts[last.inst].cur[n] > 0
  /\ \E n \in DOMAIN insts[last.inst].cond : insts[last.inst].cond[n] # None
  /\ \A n \in DOMAIN insts[Len(insts)].cur : insts[Len(insts)].cur[n] = 0


\* the value of the top-level variable total
Total(heap) == heap[GlobalEnv].key_values["total"].v

\* C38: an instance driven with next or collect from inside a regular
\* function resolves its free names in the Env its declaration was executed
\* in, never in the Env of the calling function.  caller, gather and relay
\* each hold a local total (5, 5 and 7) and drive a new instance of reader,
\* whose body reads and writes the free name total: on every resume reader
\* reads the global total and writes it, the locals keep their values, and
\* the results are computed from the global readings and the untouched
\* locals.
FreeNamesResolveInClosureScope ==
  [][(last'.op = "invoke" /\ last'.args = <<>>
        /\ last'.decl \in {"caller", "gather", "relay"}) =>
       /\ last'.sig = "ok"
       /\ last'.made = 1
       /\ insts'[Len(insts')].decl = "reader"
       /\ insts'[Len(insts')].env = GlobalEnv
       /\ hist'[Len(insts')].yielded = <<IntV(Total(envs)), IntV(Total(envs) + 1)>>
       /\ Total(envs') = Total(envs) + 1
       /\ \A k \in EventsOf(last'.tr, Len(insts')) :
            last'.tr[k].scopes = (BoundEnv(Len(insts')) :> <<>>)
       /\ last'.decl = "caller" => last'.val = IntV(2 * Total(envs) + 1 + 5)
       /\ last'.decl = "gather" =>
            last'.val = IntV(5) /\ insts'[Len(insts')].index = Done
       /\ last'.decl = "relay" => last'.val = IntV(2 * Total(envs) + 1 + 5 + 7)]_vars

\* relay() was called: reader, driven by caller two calls deep, read and
\* wrote the global total under two locals of the same name
DrivenUnderTwoLocalsOfTheSameName ==
  /\ last.op = "invoke" /\ last.decl = "relay" /\ last.sig = "ok"
  /\ last.val = IntV(213)
  /\ Total(envs) = 101
  /\ hist[Len(insts)].yielded = <<IntV(100), IntV(101)>>


(***************************************************************************)
(* The two executors on the same body.  The body of TwinSource is          *)
(* declared twice, as a fun run by execute_block and as a gen compiled     *)
(* into a tree of Resumable nodes; none contains a yield.  The driver      *)
(* calls the functions and makes and resumes instances of the generators.  *)
(***************************************************************************)
TwinInit ==
  /\ src = "twins"
  /\ envs = (GlobalEnv :> [key_values |-> GlobalBindings(src) @@ TopLevelVars(src),
                           parent_env |-> NoEnv])
  /\ insts = <<>>
  /\ hist = <<>>
  /\ top = {}
  /\ last = Idle

\* the driver keeps one instance at a time
TwinNext == CallFunction \/ (insts = <<>> /\ New) \/ Resume \/ Discard

TwinSpec == TwinInit /\ [][TwinNext]_vars

\* the declaration of the other kind with the same body
TwinOf(d) == IF d = "trail" THEN "trail_gen" ELSE "trail"

\* the outcome f of a call of a function and the outcome g of the first
\* resume of an instance agree: the function's result is the value the
\* StopIteration carries, an error is the same error, and the enclosing Env
\* ends with the same bindings
SameOutcome(f, g) ==
  /\ f.sig = "ok" => g.sig = "stop" /\ g.val = f.val
  /\ f.sig = "err" => g.sig = "err" /\ g.err = f.err
  /\ f.sig \in {"ok", "err"}
  /\ f.s.envs[GlobalEnv] = g.s.envs[GlobalEnv]

\* C39: for a body without yield, the function executor and a generator
\* instance driven by one resume agree.  Whenever the driver calls a
\* function, a new instance of the generator with the same body and
\* argument, resumed once in the same state, ends with StopIteration
\* carrying the function's result and leaves the global Env with the same
\* bindings; whenever the driver resumes an instance for the first time, a
\* call of the function with the same body in the same state does.  trail
\* updates mark with operations that do not commute, so equal bindings mean
\* the same assignments in the same order.
ExecutorsAgreeWithoutYield ==
  [][/\ last'.op = "invoke" =>
          \E g \in {GeneratorResume(Len(insts) + 1, GlobalEnv,
                                    GeneratorNew(State, TwinOf(last'.decl), last'.args,
                                                 GlobalEnv))} :
            /\ SameOutcome([s |-> [envs |-> envs'], sig |-> last'.sig, val |-> last'.val,
                            err |-> last'.err], g)
            /\ g.s.insts[Len(insts) + 1].index = Done
     /\ (last'.op = "resume" /\ insts[last'.inst].index # Done) =>
          \E f \in {CallValue(FunV(TwinOf(insts[last'.inst].decl)), hist[last'.inst].args,
                              State)} :
            /\ SameOutcome(f, [s |-> [envs |-> envs'], sig |-> last'.sig, val |-> last'.val,
                               err |-> last'.err])
            /\ insts'[last'.inst].index = Done]_vars

\* an instance of trail_gen with argument 3 was resumed: it returned 28
\* from the third iteration of its loop, having left 21 in mark
GeneratorReturnedLikeFunction ==
  /\ src = "twins"
  /\ last.op = "resume" /\ last.sig = "stop" /\ last.val = IntV(28)
  /\ insts[last.inst].decl = "trail_gen" /\ hist[last.inst].args = <<IntV(3)>>
  /\ Mark(envs) = IntV(21)


(***************************************************************************)
(* Termination.  One instance of range(start, end) or of fib(n) is resumed *)
(* again and again, as collect_values and a caller's loop over next do.    *)
(***************************************************************************)
DriveInit ==
  \E c \in {<<"rng", "range", <<IntV(a), IntV(b)>>>> : a, b \in 0..MaxLimit}
             \cup {<<"fib", "fib", <<IntV(n)>>>> : n \in 0..MaxFib} :
    \E r \in {CallValue(FunV(c[2]), c[3], SoloState(c[1]))} :
      /\ src = c[1]
      /\ envs = r.s.envs
      /\ insts = r.s.insts
      /\ hist = r.s.hist
      /\ top = {1}
      /\ last = Idle

DriveNext == Resume \/ Discard

\* the driver keeps resuming: it takes the outcome of each resume and
\* resumes again.  Resume can be taken exactly when no outcome is held, so
\* the second condition is weak fairness of Resume with its enabling
\* condition written out.
DriveSpec ==
  /\ DriveInit /\ [][DriveNext]_vars
  /\ WF_vars(Discard)
  /\ <>[](last = Idle) => []<><<Resume>>_vars

\* the number of resumes range(start, end) needs to become done
RangeResumes(start, end) ==
  IF start = end THEN 2 ELSE (IF end > start THEN end - start ELSE 0) + 1

\* one resume of an instance that is not done: it ends with a value or with
\* exhaustion; with a value the instance is not done and has one more value
\* to its name, with exhaustion it is done; and a range instance is
\* exhausted by the resume whose number is RangeResumes and by no other
ResumeCounts ==
  (last'.op = "resume" /\ insts[last'.inst].index # Done) =>
    \E i \in {last'.inst} :
      /\ last'.sig \in {"ok", "stop"}
      /\ last'.sig = "ok" =>
           /\ insts'[i].index # Done
           /\ Len(hist'[i].yielded) = Len(hist[i].yielded) + 1
      /\ last'.sig = "stop" =>
           /\ insts'[i].index = Done
           /\ hist'[i].yielded = hist[i].yielded
      /\ insts[i].decl = "range" =>
           (last'.sig = "stop" <=>
              Len(hist[i].yielded) + 1 = RangeResumes(hist[i].args[1].v, hist[i].args[2].v))

\* C40: every resume of a range(start, end) or fib(n) instance ends, with a
\* value or with exhaustion, and an instance that is resumed again and again
\* becomes done.  range is exhausted by resume number max(end - start, 0) + 1
\* when start # end and by resume number 2 when start = end; a resume that
\* returns a value never leaves the instance done.
ResumesTerminate ==
  [][ResumeCounts]_vars /\ <>(insts[1].index = Done)

\* range(0, 2) was exhausted by its third resume and fib is being driven
RangeDoneAfterThreeResumes ==
  /\ src = "rng"
  /\ hist[1].args = <<IntV(0), IntV(2)>>
  /\ hist[1].yielded = <<IntV(0), IntV(1)>>
  /\ insts[1].index = Done
  /\ last.op = "resume" /\ last.sig = "stop"
====
